---- MODULE Spec2Model ----
(***************************************************************************)
(* State-machine model of the MediaMock engine (lib/main.ts) together with *)
(* the property-patch helper (lib/defineProperty.ts) and the host objects  *)
(* it touches: navigator.mediaDevices, the frame scheduler, the document.  *)
(*                                                                         *)
(* JavaScript runs one task at a time.  Every synchronous method is one    *)
(* action.  An async method is split at the only await that waits for the  *)
(* host: the media load.  Promise reactions after the load run as          *)
(* microtasks of the task that settled the load, so the rest of the        *)
(* method is part of the action that settles the load.                     *)
(***************************************************************************)
EXTENDS Integers, Sequences, FiniteSets, Bags, TLC

\* ------------------------------------------------------------------ bounds
MaxPending   == 2   \* async calls (setMediaURL / getUserMedia) in flight
MaxStreams   == 2   \* streams handed out between two unmock() calls
MaxDevices   == 3   \* length of a preset's device list
MaxDeviceOps == 2   \* addMockDevice / removeMockDevice calls followed
MaxAttached  == 2   \* elements attached to document.body
MaxCycles    == 3   \* mock/setMediaURL/getUserMedia/unmock cycles driven
MaxPlaying   == 2   \* video elements playing at the same time
MaxDefines   == 3   \* defineProperty calls not yet restored

\* ------------------------------------------------------------- vocabulary
Null == 0                      \* null handle (rafId, intervalId)
None == [tag |-> "none"]       \* undefined element / stream / restore fn

Entries == {"getUserMedia", "getSupportedConstraints", "enumerateDevices"}

HostFn    == "host"            \* the host's own function
Undefined == "undefined"       \* entry of the stand-in MockedMediaDevices
MockFn    == "mock"            \* a function installed by mock()

\* Host behaviour of a property of navigator.mediaDevices.
\*   configurable    Object.defineProperty works
\*   nonConfigurable descriptor.configurable === false, assignment works
\*   frozen          descriptor.configurable === false, assignment throws
\*   nonExtensible   no own descriptor, defineProperty and assignment throw
PropKinds == {"configurable", "nonConfigurable", "frozen", "nonExtensible"}

\* Device-info entries (createMediaDeviceInfo) used by the presets.
\* facingMode is getCapabilities().facingMode, << >> when it is not an array.
Front == [deviceId |-> "front", kind |-> "videoinput", label |-> "Front Camera",
          facingMode |-> <<"user">>]
Back  == [deviceId |-> "back", kind |-> "videoinput", label |-> "Back Camera",
          facingMode |-> <<"environment">>]
Usb   == [deviceId |-> "usb", kind |-> "videoinput", label |-> "USB Camera",
          facingMode |-> <<>>]
DeviceInfos == {Front, Back, Usb}
DeviceIds   == {d.deviceId : d \in DeviceInfos}

\* Device presets are objects: "iPhone 12" is devices["iPhone 12"], "Custom"
\* is a caller-built DeviceConfig.  Resolutions are in units of 40 pixels
\* (1920x1080 is 48x27) so that the scores stay in range.
Presets == {"iPhone 12", "Custom"}

videoResolutions(p) ==
  IF p = "iPhone 12"
  THEN << [width |-> 48, height |-> 27], [width |-> 32, height |-> 18],
          [width |-> 16, height |-> 12] >>
  ELSE IF p = "Custom"
  THEN << [width |-> 20, height |-> 15], [width |-> 12, height |-> 16] >>
  ELSE << >>

\* "Empty" is a caller-built DeviceConfig with videoResolutions: [].
ResolverPresets == Presets \cup {"Empty"}

\* supportedConstraints map of a preset, restricted to three of its keys.
defaultSupportedConstraints == [width |-> TRUE, torch |-> FALSE, zoom |-> TRUE]
supportedConstraints(p) ==
  IF p = "iPhone 12" THEN defaultSupportedConstraints
  ELSE [width |-> TRUE, torch |-> TRUE, zoom |-> FALSE]

InitialDeviceList(p) ==
  IF p = "iPhone 12" THEN <<Front, Back>> ELSE <<Usb>>

\* A media reference is the sequence of its "."-separated segments.
DefaultURL == << "data:image/png;base64,iVBOR" >>
ImageURL   == << "/assets/a", "png" >>
VideoURL   == << "/assets/b", "MP4" >>
MissingURL == << "/assets/missing", "png" >>
EmptyURL   == << "" >>
BlankURL   == << " \t " >>
LoadableURLs == {DefaultURL, ImageURL, VideoURL}
InputURLs    == {ImageURL, VideoURL, MissingURL, EmptyURL, BlankURL}

\* String.prototype.trim on the strings above: only BlankURL has white
\* space at an end.
trim(str) == IF str = BlankURL THEN EmptyURL ELSE str

\* The values a caller can pass where a string is declared: a string, or
\* (the declared type is erased at run time) undefined or a number.
Str(url) == [typeof |-> "string", str |-> url, num |-> 0]
UndefinedValue == [typeof |-> "undefined", str |-> <<>>, num |-> 0]
NumberValue(n) == [typeof |-> "number", str |-> <<>>, num |-> n]
MediaURLValues ==
  {Str(url) : url \in InputURLs} \cup {UndefinedValue, NumberValue(42)}

\* The truth value of a value in a condition.
ToBoolean(v) ==
  CASE v.typeof = "string" -> v.str # EmptyURL
    [] v.typeof = "number" -> v.num # 0
    [] OTHER -> FALSE

videoExtensions ==
  {"mp4", "webm", "ogg", "mov", "avi", "mkv", "flv", "wmv", "m4v", "3gp",
   "mpg", "mpeg", "asf", "rm", "vob"}

toLowerCase(str) == IF str = "MP4" THEN "mp4" ELSE str

isVideoURL(url) == toLowerCase(url[Len(url)]) \in videoExtensions

\* A constraint value: absent, a number, or a range object whose absent
\* members are written Absent.
Absent == -1
NoValue    == [t |-> "absent"]
Num(n)     == [t |-> "num", v |-> n]
Range(i, e, mx) == [t |-> "range", ideal |-> i, exact |-> e, max |-> mx]

\* The argument of getUserMedia: {video: true} or {video: {...}}.
\* A facingMode constraint: absent (NoValue), a string, an array of
\* strings, or an object with ideal and exact members of these shapes.
Mode(m)     == [t |-> "string", v |-> m]
Modes(list) == [t |-> "array", list |-> list]
ModeObject(i, e) == [t |-> "object", ideal |-> i, exact |-> e]

VideoTrue == [video |-> "true", width |-> NoValue, height |-> NoValue,
              frameRate |-> NoValue, facingMode |-> NoValue]
VideoObject(w, h, f, m) ==
  [video |-> "object", width |-> w, height |-> h, frameRate |-> f,
   facingMode |-> m]
ConstraintSets ==
  { VideoTrue, VideoObject(Num(32), Num(18), NoValue, Mode("environment")) }

\* A JavaScript number: NaN or a finite value.  Every comparison with NaN
\* is false and Math.max returns NaN when an argument is NaN.
NaN == [nan |-> TRUE, v |-> 0]
Number(n) == [nan |-> FALSE, v |-> n]
LessEq(a, b) == ~a.nan /\ ~b.nan /\ a.v <= b.v
Greater(a, b) == ~a.nan /\ ~b.nan /\ a.v > b.v
MathMax(a, b) == IF a.nan \/ b.nan THEN NaN ELSE IF a.v >= b.v THEN a ELSE b

\* ------------------------------------------------------ resolution resolver
\* An extraction that prefers the upper bound of a range to its ideal.
extractConstraintValueMaxFirst(constraint, defaultValue) ==
  IF constraint.t = "num" THEN constraint.v
  ELSE IF constraint.t = "range"
  THEN IF constraint.max # Absent THEN constraint.max
       ELSE IF constraint.ideal # Absent THEN constraint.ideal
       ELSE IF constraint.exact # Absent THEN constraint.exact
       ELSE defaultValue
  ELSE defaultValue

extractConstraintValue(constraint, defaultValue) ==
  IF constraint.t = "num" THEN constraint.v
  ELSE IF constraint.t = "range"
  THEN IF constraint.ideal # Absent THEN constraint.ideal
       ELSE IF constraint.exact # Absent THEN constraint.exact
       ELSE IF constraint.max # Absent THEN constraint.max
       ELSE defaultValue
  ELSE defaultValue

Swap(res) == [width |-> res.height, height |-> res.width]

\* Array.prototype.find: the first element that satisfies P, or None.
Find(list, P(_)) ==
  LET hits == {i \in 1..Len(list) : P(list[i])}
  IN  IF hits = {} THEN None
      ELSE list[CHOOSE i \in hits : \A j \in hits : i <= j]

\* An exact match that is never turned for a portrait viewport.
findExactMatchWithoutSwap(resolutions, targetWidth, targetHeight, isPortrait) ==
  LET IsDirect(res) == res.width = targetWidth /\ res.height = targetHeight
  IN  Find(resolutions, IsDirect)

findExactMatch(resolutions, targetWidth, targetHeight, isPortrait) ==
  LET IsDirect(res) == res.width = targetWidth /\ res.height = targetHeight
      IsSwapped(res) == res.width = targetHeight /\ res.height = targetWidth
      directMatch == Find(resolutions, IsDirect)
      landscapeToSwap == Find(resolutions, IsSwapped)
  IN  IF directMatch # None
      THEN IF isPortrait /\ directMatch.width > directMatch.height
           THEN Swap(directMatch)
           ELSE directMatch
      ELSE IF isPortrait /\ landscapeToSwap # None
      THEN Swap(landscapeToSwap)
      ELSE None

Abs(x) == IF x < 0 THEN -x ELSE x

\* score = 2*|cw/ch - tw/th| + |cw*ch - tw*th| / (tw*th), as the fraction
\* ScoreNum / (ch*th*tw); th*tw is common to every candidate.
ScoreNum(res, tw, th) ==
  2 * tw * Abs(res.width * th - tw * res.height)
    + res.height * Abs(res.width * res.height - tw * th)
ScoreLess(a, b, tw, th) ==
  ScoreNum(a, tw, th) * b.height < ScoreNum(b, tw, th) * a.height

\* A best fit that does not sort the candidates by score.
findBestFitResolutionUnsorted(resolutions, targetWidth, targetHeight, isPortrait) ==
  IF Len(resolutions) = 0 THEN None
  ELSE IF isPortrait /\ resolutions[1].width > resolutions[1].height
  THEN Swap(resolutions[1]) ELSE resolutions[1]

\* Returns None where the code throws (scoredResolutions[0] is undefined).
findBestFitResolution(resolutions, targetWidth, targetHeight, isPortrait) ==
  LET actualRes(i) ==
        IF isPortrait /\ resolutions[i].width > resolutions[i].height
        THEN Swap(resolutions[i]) ELSE resolutions[i]
      \* the sort is stable: the first candidate with the lowest score
      best == CHOOSE i \in 1..Len(resolutions) :
                \A j \in 1..Len(resolutions) :
                  /\ ~ScoreLess(actualRes(j), actualRes(i),
                                targetWidth, targetHeight)
                  /\ (j < i => ScoreLess(actualRes(i), actualRes(j),
                                         targetWidth, targetHeight))
  IN  IF Len(resolutions) = 0 THEN None ELSE actualRes(best)

getFallbackResolution(resolutions, isPortrait) ==
  LET IsTall(res) == res.height > res.width
      IsWide(res) == res.width >= res.height
      portraitRes == Find(resolutions, IsTall)
      landscapeRes == Find(resolutions, IsWide)
  IN  IF Len(resolutions) = 0 THEN [width |-> 16, height |-> 12]
      ELSE IF isPortrait
      THEN IF portraitRes # None THEN portraitRes ELSE Swap(resolutions[1])
      ELSE IF landscapeRes # None THEN landscapeRes ELSE resolutions[1]

\* None where findBestFitResolution throws.
getResolution(c, deviceConfig, isPortrait) ==
  LET targetWidth == extractConstraintValue(c.width, 16)
      targetHeight == extractConstraintValue(c.height, 12)
      exact == findExactMatch(videoResolutions(deviceConfig), targetWidth,
                              targetHeight, isPortrait)
  IN  IF exact # None THEN exact
      ELSE findBestFitResolution(videoResolutions(deviceConfig), targetWidth,
                                 targetHeight, isPortrait)

\* A frame rate that reads numbers only and takes 30 for every range.
getFPSFromConstraintsNumbersOnly(c) ==
  IF c.video = "object" /\ c.frameRate.t = "num" /\ c.frameRate.v # 0
  THEN c.frameRate.v ELSE 30

getFPSFromConstraints(c) ==
  IF c.video = "object" /\ c.frameRate.t # "absent"
       /\ ~(c.frameRate.t = "num" /\ c.frameRate.v = 0)
  THEN IF c.frameRate.t = "num" THEN c.frameRate.v
       ELSE IF c.frameRate.ideal # Absent /\ c.frameRate.ideal # 0
            THEN c.frameRate.ideal ELSE 30
  ELSE 30

\* ------------------------------------------------------------------ state
VARIABLES
  \* --- MediaMockClass fields
  mediaURL,            \* settings.mediaURL
  device,              \* settings.device (a preset object)
  constraints,         \* settings.constraints
  currentImage,        \* HTMLImageElement or None
  currentVideo,        \* HTMLVideoElement or None
  mapUnmockFunction,   \* entry -> restore function or None
  currentStream,       \* index into streams, 0 when undefined
  intervalId,
  rafId,
  debug,
  canvas,              \* HTMLCanvasElement or None
  ctx,                 \* id of the canvas the 2D context belongs to, 0 if none
  fps,
  resolution,
  mediaTimeout,        \* settings.mediaTimeout, in milliseconds
  canvasScaleFactor,   \* settings.canvasScaleFactor, in hundredths
  mockedVideoTracksHandler, \* the function set by setMockedVideoTracksHandler
  lastDrawTime,        \* time of the last throttled draw, 0 when no loop runs
  \* --- host
  mediaDevicesDefined, \* typeof navigator.mediaDevices !== "undefined"
  props,               \* value of each entry of navigator.mediaDevices
  propKind,            \* how the host lets each entry be replaced
  rafSupported,        \* typeof requestAnimationFrame === "function"
  pendingRaf,          \* frame callbacks requested and not yet run
  pendingInterval,     \* interval timers set and not cleared
  attached,            \* children of document.body, in document order
  mediaDeviceInfo,     \* preset object -> its mediaDeviceInfo array
  events,              \* devicechange events dispatched on mediaDevices
  imageIds,            \* image elements whose id attribute has been set
  autoplay,            \* HTMLMediaElement.play() starts playback on this host
  playing,             \* video elements whose playback started and was not paused
  now,                 \* performance.now(), in sixtieths of a second
  \* --- calls and observations
  calls,               \* bag of the async calls awaiting their media load
  streams,             \* track readyState of each stream since last unmock
  closed,              \* unmock() ran after the last stream was handed out
  deviceOps,           \* addMockDevice/removeMockDevice calls made
  lastMocked,          \* preset passed to the most recent mock(), or None
  lastSettled,         \* what the entry point called in the last step returned
  cycle,               \* position of the sequential driver
  probe                \* arguments and result of the function last applied

mmVars   == << mediaURL, device, constraints, currentImage, currentVideo,
               mapUnmockFunction, currentStream, intervalId, rafId, debug,
               canvas, ctx, fps, resolution, mediaTimeout,
               canvasScaleFactor, mockedVideoTracksHandler, lastDrawTime >>
hostVars == << mediaDevicesDefined, props, propKind, rafSupported, pendingRaf,
               pendingInterval, attached, mediaDeviceInfo, events,
               imageIds, autoplay, playing, now >>
obsVars  == << calls, streams, closed, deviceOps, lastMocked >>
vars     == << mmVars, hostVars, obsVars, lastSettled, cycle, probe >>

\* The state a handler reads and writes, as one record.
Cur ==
  [ mediaURL |-> mediaURL, device |-> device, constraints |-> constraints,
    currentImage |-> currentImage, currentVideo |-> currentVideo,
    mapUnmockFunction |-> mapUnmockFunction, currentStream |-> currentStream,
    intervalId |-> intervalId, rafId |-> rafId, debug |-> debug,
    canvas |-> canvas, ctx |-> ctx, fps |-> fps, resolution |-> resolution,
    mediaTimeout |-> mediaTimeout, canvasScaleFactor |-> canvasScaleFactor,
    mockedVideoTracksHandler |-> mockedVideoTracksHandler,
    lastDrawTime |-> lastDrawTime, now |-> now, drawn |-> 0,
    mediaDevicesDefined |-> mediaDevicesDefined, props |-> props,
    propKind |-> propKind, rafSupported |-> rafSupported,
    pendingRaf |-> pendingRaf, pendingInterval |-> pendingInterval,
    attached |-> attached, mediaDeviceInfo |-> mediaDeviceInfo,
    events |-> events, imageIds |-> imageIds, autoplay |-> autoplay,
    playing |-> playing, streams |-> streams, closed |-> closed,
    handlerLog |-> <<>>, err |-> "" ]

\* Write a handler's result back.  The field err is the exception the
\* handler ended with ("" when it returned normally); handlerLog lists the
\* invocations of mockedVideoTracksHandler it made, each with the tracks
\* given and the tracks returned; drawn counts the frames it drew on the
\* canvas.
Commit(s) ==
  /\ mediaURL' = s.mediaURL
  /\ device' = s.device
  /\ constraints' = s.constraints
  /\ currentImage' = s.currentImage
  /\ currentVideo' = s.currentVideo
  /\ mapUnmockFunction' = s.mapUnmockFunction
  /\ currentStream' = s.currentStream
  /\ intervalId' = s.intervalId
  /\ rafId' = s.rafId
  /\ debug' = s.debug
  /\ canvas' = s.canvas
  /\ ctx' = s.ctx
  /\ fps' = s.fps
  /\ resolution' = s.resolution
  /\ mediaTimeout' = s.mediaTimeout
  /\ canvasScaleFactor' = s.canvasScaleFactor
  /\ mockedVideoTracksHandler' = s.mockedVideoTracksHandler
  /\ mediaDevicesDefined' = s.mediaDevicesDefined
  /\ props' = s.props
  /\ propKind' = s.propKind
  /\ rafSupported' = s.rafSupported
  /\ pendingRaf' = s.pendingRaf
  /\ pendingInterval' = s.pendingInterval
  /\ attached' = s.attached
  /\ mediaDeviceInfo' = s.mediaDeviceInfo
  /\ events' = s.events
  /\ imageIds' = s.imageIds
  /\ autoplay' = s.autoplay
  /\ lastDrawTime' = s.lastDrawTime
  /\ now' = s.now
  /\ playing' = s.playing
  /\ streams' = s.streams
  /\ closed' = s.closed

\* ------------------------------------------------------- host: identifiers
\* Handles and elements are opaque to the program; the host hands out the
\* least identifier that nothing refers to any more.
Least(used) == CHOOSE n \in 1..(Cardinality(used) + 1) :
                 /\ n \notin used
                 /\ \A m \in 1..(n - 1) : m \in used

SeqRange(q) == {q[i] : i \in 1..Len(q)}

\* The handle a scheduling call returns is stored in rafId / intervalId at
\* once, so the old value of that field is not a reference any more.
FreshRaf(s)      == Least({cb.id : cb \in s.pendingRaf})
FreshInterval(s) == Least({t.id : t \in s.pendingInterval})
\* A new element is told apart from the elements the document still holds;
\* the element it replaces in a field of the engine is garbage by then.
FreshCanvas(s) ==
  Least({e.id : e \in {x \in SeqRange(s.attached) : x.tag = "canvas"}})
FreshMedia(s) ==
  Least({e.id : e \in {x \in SeqRange(s.attached) : x.tag # "canvas"}}
        \cup {v.id : v \in s.playing})

Attached(s, el) == el \in SeqRange(s.attached)

\* Node.remove(): detach el when it is attached.
Detach(q, el) == SelectSeq(q, LAMBDA x : x # el)

\* ------------------------------------------------------- defineProperty
CanDefine(kind) == kind = "configurable"
CanAssign(kind) == kind \in {"configurable", "nonConfigurable"}
IsConfigurable(kind) == kind \in {"configurable", "nonExtensible"}

\* defineProperty(navigator.mediaDevices, property, newValue): the property
\* values after the call, and the cleanup function it returns.
definePropertyValue(s, property, newValue) ==
  LET kind == s.propKind[property]
  IN  IF ~IsConfigurable(kind)
      THEN IF CanAssign(kind) THEN newValue ELSE s.props[property]
      ELSE IF CanDefine(kind) THEN newValue
      ELSE IF CanAssign(kind) THEN newValue
      ELSE s.props[property]

\* A cleanup that restores the host's function whatever value the property
\* had when it was replaced.
definePropertyCleanupCapturesHost(s, property) ==
  [tag |-> "cleanup", original |-> HostFn,
   mockApplied |-> CanDefine(s.propKind[property])
                     \/ CanAssign(s.propKind[property])]

definePropertyCleanup(s, property) ==
  LET kind == s.propKind[property]
  IN  [tag |-> "cleanup",
       original |-> s.props[property],
       mockApplied |-> CanDefine(kind) \/ CanAssign(kind)]

\* A cleanup that gives up when Object.defineProperty fails, with no
\* fallback to direct assignment.
RunCleanupWithoutFallback(s, property, cleanup) ==
  IF CanDefine(s.propKind[property]) /\ cleanup.mockApplied
  THEN [s EXCEPT !.props[property] = cleanup.original]
  ELSE s

\* Run a cleanup function returned by defineProperty.
RunCleanup(s, property, cleanup) ==
  LET kind == s.propKind[property]
  IN  IF CanDefine(kind) /\ cleanup.mockApplied
      THEN [s EXCEPT !.props[property] = cleanup.original]
      ELSE IF CanAssign(kind)
      THEN [s EXCEPT !.props[property] = cleanup.original]
      ELSE s

\* ------------------------------------------------------------ render loop
\* A stop that forgets the handles without cancelling what they refer to.
stopDrawingLoopForgetsHandles(s) ==
  [s EXCEPT !.rafId = Null, !.intervalId = Null]

stopDrawingLoop(s) ==
  [s EXCEPT
     !.pendingRaf = IF s.rafId # Null
                    THEN {cb \in s.pendingRaf : cb.id # s.rafId} ELSE @,
     !.rafId = Null,
     !.pendingInterval = IF s.intervalId # Null
                         THEN {tm \in s.pendingInterval : tm.id # s.intervalId}
                         ELSE @,
     !.intervalId = Null,
     !.lastDrawTime = 0]

\* requestAnimationFrame(draw) / setInterval(draw, 1000 / fps); kind tells
\* which closure was scheduled: drawFrame ("video") or drawImage ("image").
\* The closure captures width and height, and the frame interval comes
\* from the fps of the moment the loop is started.
Schedule(s, kind, width, height) ==
  IF s.rafSupported
  THEN [s EXCEPT
          !.rafId = FreshRaf(s),
          !.pendingRaf = @ \cup {[id |-> FreshRaf(s), kind |-> kind,
                                  width |-> width, height |-> height,
                                  fps |-> s.fps]}]
  ELSE [s EXCEPT
          !.intervalId = FreshInterval(s),
          !.pendingInterval = @ \cup {[id |-> FreshInterval(s), kind |-> kind,
                                       width |-> width, height |-> height,
                                       fps |-> s.fps, start |-> s.now]}]

startVideoDrawingLoop(s, width, height) ==
  Schedule([s EXCEPT !.lastDrawTime = s.now], "video", width, height)

startImageDrawingLoop(s, width, height) == Schedule(s, "image", width, height)

\* A start that cancels the previous loop and schedules nothing.
startDrawingLoopSchedulesNothing(s) == stopDrawingLoop(s)

startDrawingLoop(s) ==
  LET s1 == stopDrawingLoop(s)
      width == s1.resolution.width
      height == s1.resolution.height
  IN  IF isVideoURL(s1.mediaURL)
      THEN IF s1.currentVideo = None
           THEN [s1 EXCEPT !.err = "Video media not loaded"]
           ELSE startVideoDrawingLoop(s1, width, height)
      ELSE IF s1.currentImage = None
           THEN [s1 EXCEPT !.err = "Image media not loaded"]
           ELSE startImageDrawingLoop(s1, width, height)

\* ------------------------------------------------------------- media load
\* A loader that creates an image element whatever the reference.
loadMediaAlwaysImage(url, id) == [tag |-> "img", id |-> id, url |-> url]

\* loadMedia(url): the element the load creates.
loadMedia(url, id) ==
  [tag |-> IF isVideoURL(url) THEN "video" ELSE "img", id |-> id, url |-> url]

\* playVideo(videoElement) when "loadeddata" arrives: play() is awaited
\* and its rejection is swallowed.
playVideo(s, videoElement) ==
  IF s.autoplay THEN [s EXCEPT !.playing = @ \cup {videoElement}] ELSE s

\* "el.pause(); el.src = ''"
pause(s, el) == [s EXCEPT !.playing = @ \ {el}]

\* A swap that leaves the render loop as it is.
setMediaURLAfterLoadKeepsLoop(s, url, media) ==
  IF media.tag = "img"
  THEN [s EXCEPT !.mediaURL = url, !.currentImage = media,
                 !.currentVideo = None]
  ELSE [s EXCEPT !.mediaURL = url, !.currentVideo = media,
                 !.currentImage = None]

\* A swap that stores the reference and keeps the source it had.
setMediaURLAfterLoadStoresURLOnly(s, url, media) ==
  [s EXCEPT !.mediaURL = url]

\* setMediaURL after its load resolved with media.
setMediaURLAfterLoad(s, url, media) ==
  LET s1 == IF media.tag = "img"
            THEN [(IF s.currentVideo # None THEN pause(s, s.currentVideo)
                   ELSE s)
                    EXCEPT !.mediaURL = url, !.currentImage = media,
                           !.currentVideo = None]
            ELSE [s EXCEPT !.mediaURL = url, !.currentVideo = media,
                           !.currentImage = None]
  IN  IF s1.intervalId # Null \/ s1.rafId # Null
      THEN startDrawingLoop(s1)
      ELSE s1

\* ------------------------------------------------------------- debug mode
\* ParentNode.append(el): el becomes the last child (it is moved when it
\* is already attached).
AppendChild(q, el) == Append(Detach(q, el), el)

enableDebugMode(s) ==
  LET s1 == [s EXCEPT !.debug = TRUE]
      s2 == IF s1.canvas # None
            THEN [s1 EXCEPT !.attached = AppendChild(@, s1.canvas)] ELSE s1
  IN  IF s2.currentImage # None
      THEN [s2 EXCEPT !.attached = AppendChild(@, s2.currentImage)] ELSE s2

\* document.getElementById: the first element in document order.
FirstCanvas(q) ==
  LET IsCanvas(x) == x.tag = "canvas" IN Find(q, IsCanvas)
FirstImageWithId(s) ==
  LET HasId(x) == x.tag = "img" /\ x.id \in s.imageIds
  IN  Find(s.attached, HasId)

disableDebugMode(s) ==
  LET byIdCanvas == FirstCanvas(s.attached)
      byIdImage == FirstImageWithId(s)
      q1 == Detach(Detach(s.attached, byIdCanvas), byIdImage)
      q2 == IF s.currentImage # None THEN Detach(q1, s.currentImage) ELSE q1
      q3 == IF s.canvas # None THEN Detach(q2, s.canvas) ELSE q2
  IN  [s EXCEPT !.debug = FALSE, !.attached = q3]

\* ---------------------------------------------------------------- teardown
stopMockStream(s) ==
  LET s0 == stopDrawingLoop(s)
      s1 == IF s0.currentVideo # None THEN pause(s0, s0.currentVideo) ELSE s0
  IN  [s1 EXCEPT
         !.streams = IF s1.currentStream # 0
                     THEN [@ EXCEPT ![s1.currentStream].readyState =
                            IF s1.streams[s1.currentStream].inStream
                            THEN "ended" ELSE @]
                     ELSE @,
         !.currentStream = 0,
         !.currentVideo = None,
         !.currentImage = None,
         !.attached = IF s1.canvas # None THEN Detach(@, s1.canvas) ELSE @,
         !.canvas = None,
         !.ctx = 0]

RECURSIVE RunCleanups(_, _)
RunCleanups(s, todo) ==
  IF todo = {} THEN s
  ELSE LET property == CHOOSE e \in todo : TRUE
       IN  RunCleanups(RunCleanup(s, property, s.mapUnmockFunction[property]),
                       todo \ {property})

\* An unmock() that leaves debug mode as it is.
unmockKeepsDebugMode(s) ==
  LET s1 == stopMockStream(s)
      s2 == RunCleanups(s1, {e \in Entries : s1.mapUnmockFunction[e] # None})
  IN  [s2 EXCEPT !.mapUnmockFunction = [e \in Entries |-> None]]

unmock(s) ==
  LET s1 == disableDebugMode(stopMockStream(s))
      s2 == RunCleanups(s1, {e \in Entries : s1.mapUnmockFunction[e] # None})
  IN  [s2 EXCEPT !.mapUnmockFunction = [e \in Entries |-> None]]

\* ------------------------------------------------------------------- mock
\* An interception installed whatever its option flag says.
InterceptWhateverTheFlag(s, property, flag) ==
  [s EXCEPT !.props[property] = definePropertyValue(s, property, MockFn),
            !.mapUnmockFunction[property] =
               definePropertyCleanup(s, property)]

\* A block that forgets the restore function of an entry point whose flag
\* is false.
InterceptForgetsUnflagged(s, property, flag) ==
  IF flag
  THEN [s EXCEPT !.props[property] = definePropertyValue(s, property, MockFn),
                 !.mapUnmockFunction[property] =
                    definePropertyCleanup(s, property)]
  ELSE [s EXCEPT !.mapUnmockFunction[property] = None]

\* One "if (options?.mediaDevices.x)" block of mock().
Intercept(s, property, flag) ==
  IF flag
  THEN [s EXCEPT !.props[property] = definePropertyValue(s, property, MockFn),
                 !.mapUnmockFunction[property] =
                    definePropertyCleanup(s, property)]
  ELSE s

createDefaultMockOptions ==
  [getUserMedia |-> TRUE, getSupportedConstraints |-> TRUE,
   enumerateDevices |-> TRUE]

mock(s, dev, options) ==
  LET s1 == [s EXCEPT !.device = dev]
      s2 == IF ~s1.mediaDevicesDefined
            THEN [s1 EXCEPT !.mediaDevicesDefined = TRUE,
                            !.props = [e \in Entries |-> Undefined],
                            !.propKind = [e \in Entries |-> "configurable"]]
            ELSE s1
      s3 == Intercept(s2, "getUserMedia", options.getUserMedia)
      s4 == Intercept(s3, "getSupportedConstraints",
                      options.getSupportedConstraints)
  IN  Intercept(s4, "enumerateDevices", options.enumerateDevices)

\* ------------------------------------------------------- intercepted capture
\* getMockStream up to the await of setMediaURL: cid is the new canvas,
\* ctxOk tells whether canvas.getContext("2d") returned a context.
getMockStreamBeforeLoad(s, c, isPortrait, ctxOk, cid) ==
  LET res == getResolution(c, s.device, isPortrait)
  IN  IF res = None
      THEN [s EXCEPT !.err = "TypeError"]
      ELSE [s EXCEPT
              !.resolution = res,
              !.fps = getFPSFromConstraints(c),
              !.canvas = [tag |-> "canvas", id |-> cid, width |-> res.width,
                          height |-> res.height],
              !.ctx = IF ctxOk THEN cid ELSE 0,
              !.err = IF ctxOk THEN "" ELSE "Failed to get 2D canvas context"]

\* A value in a condition: undefined and "" are false, arrays and objects
\* are true.
Truthy(x) == x.t # "absent" /\ ~(x.t = "string" /\ x.v = "")

\* "Array.isArray(x) ? x[0] : x", with "" for undefined.
FirstOrValue(x) ==
  IF x.t = "array" THEN (IF Len(x.list) > 0 THEN x.list[1] ELSE "")
  ELSE x.v

\* The requested facing mode, "" for null and undefined.
getFacingModeFromConstraints(c) ==
  IF c.video = "object" /\ Truthy(c.facingMode)
  THEN IF c.facingMode.t = "string" THEN c.facingMode.v
       ELSE IF c.facingMode.t = "object" /\ Truthy(c.facingMode.ideal)
       THEN FirstOrValue(c.facingMode.ideal)
       ELSE IF c.facingMode.t = "object" /\ Truthy(c.facingMode.exact)
       THEN FirstOrValue(c.facingMode.exact)
       ELSE ""
  ELSE ""

\* A selection that takes the first matching entry.
getDeviceForFacingModeFirstMatch(s, facingMode, deviceConfig) ==
  LET IsVideo(d) == d.kind = "videoinput"
      Matches(d) == \E i \in 1..Len(d.facingMode) : d.facingMode[i] = facingMode
      videoDevices == SelectSeq(s.mediaDeviceInfo[deviceConfig], IsVideo)
      matchingDevices == SelectSeq(videoDevices, Matches)
  IN  IF Len(videoDevices) = 0 THEN None
      ELSE IF facingMode = "" THEN videoDevices[1]
      ELSE IF Len(matchingDevices) > 0 THEN matchingDevices[1]
      ELSE videoDevices[1]

\* The device-info entry of the preset for a facing mode, None for
\* undefined.
getDeviceForFacingMode(s, facingMode, deviceConfig) ==
  LET IsVideo(d) == d.kind = "videoinput"
      Matches(d) == \E i \in 1..Len(d.facingMode) : d.facingMode[i] = facingMode
      videoDevices == SelectSeq(s.mediaDeviceInfo[deviceConfig], IsVideo)
      matchingDevices == SelectSeq(videoDevices, Matches)
  IN  IF Len(videoDevices) = 0 THEN None
      ELSE IF facingMode = "" THEN videoDevices[1]
      ELSE IF Len(matchingDevices) > 0
      THEN matchingDevices[Len(matchingDevices)]
      ELSE videoDevices[1]

\* label and id that the track of canvas.captureStream() has of its own.
PlatformLabel == "canvas capture"
PlatformId    == "track-uuid"

\* A video track after the label / id overrides of getMockStream.
MockedTrack(videoDevice) ==
  [readyState |-> "live", getSettings |-> "wrapper",
   label |-> IF videoDevice # None /\ videoDevice.label # ""
             THEN videoDevice.label ELSE PlatformLabel,
   id |-> IF videoDevice # None /\ videoDevice.deviceId # ""
          THEN videoDevice.deviceId ELSE PlatformId]

\* The functions a caller sets as handler: the default, which returns
\* the tracks it is given, and one that returns no track.
HandlerKinds == {"identity", "drop"}

\* A stream that is built from the tracks themselves, without asking the
\* handler.
CallHandlerNever(s, videoTracks) ==
  [s EXCEPT !.handlerLog =
     Append(@, [given |-> <<>>, returned |-> videoTracks])]

\* this.mockedVideoTracksHandler(videoTracks)
CallHandler(s, videoTracks) ==
  [s EXCEPT !.handlerLog =
     Append(@, [given |-> videoTracks,
                returned |-> IF s.mockedVideoTracksHandler = "identity"
                             THEN videoTracks ELSE <<>>])]

\* The canvas track of a new stream; inStream says whether the stream
\* holds it.
StreamOf(track, tracks) ==
  [readyState |-> track.readyState, getSettings |-> track.getSettings,
   label |-> track.label, id |-> track.id,
   inStream |-> \E i \in 1..Len(tracks) : tracks[i] = track]

\* getMockStream(c) after the awaited setMediaURL returned.
getMockStreamAfterLoad(s, c) ==
  LET s1 == startDrawingLoop(s)
      s2 == IF s1.debug THEN enableDebugMode(s1) ELSE s1
      track == MockedTrack(getDeviceForFacingMode(
                 s2, getFacingModeFromConstraints(c), s2.device))
      s3 == CallHandler(s2, <<track>>)
      stream == StreamOf(track, s3.handlerLog[Len(s3.handlerLog)].returned)
      kept == IF s3.closed THEN <<>> ELSE s3.streams
  IN  IF s1.err # "" THEN s1
      ELSE IF s2.canvas = None THEN [s2 EXCEPT !.err = "TypeError"]
      ELSE [s3 EXCEPT !.streams = Append(kept, stream),
                      !.currentStream = Len(kept) + 1,
                      !.closed = FALSE]

\* setMockedVideoTracksHandler(handler)
setMockedVideoTracksHandler(s, handler) ==
  [s EXCEPT !.mockedVideoTracksHandler = handler]

\* ------------------------------------------------------------ frame draws
\* The canvas operations of one frame; they change no state of the program.
Draw(s) == [s EXCEPT !.drawn = @ + 1]

Reschedule(s, cb) ==
  IF s.rafSupported
  THEN [s EXCEPT !.rafId = FreshRaf(s),
                 !.pendingRaf = @ \cup {[cb EXCEPT !.id = FreshRaf(s)]}]
  ELSE s

\* drawFrame of startVideoDrawingLoop; due: a frame interval has elapsed.
drawFrame(s, cb, due) ==
  IF s.ctx = 0 \/ s.currentVideo = None THEN s
  ELSE Reschedule(IF due THEN [Draw(s) EXCEPT !.lastDrawTime = s.now] ELSE s,
                  cb)

\* The setInterval callback of startVideoDrawingLoop.
drawVideoTick(s) ==
  IF s.ctx = 0 \/ s.currentVideo = None THEN s ELSE Draw(s)

\* A drawImage that tests the image and not the drawing context.
drawImageWithoutContextTest(s, cb) ==
  IF s.currentImage = None THEN s
  ELSE Reschedule(Draw([s EXCEPT !.imageIds = @ \cup {s.currentImage.id}]), cb)

\* drawImage of startImageDrawingLoop.
drawImage(s, cb) ==
  IF s.ctx = 0 \/ s.currentImage = None THEN s
  ELSE Reschedule(Draw([s EXCEPT !.imageIds = @ \cup {s.currentImage.id}]), cb)

\* The closure given to requestAnimationFrame, and the one given to
\* setInterval.
frameCallback(s, cb, due) ==
  IF cb.kind = "video" THEN drawFrame(s, cb, due) ELSE drawImage(s, cb)

timerCallback(s, tm) ==
  IF tm.kind = "video" THEN drawVideoTick(s) ELSE drawImage(s, tm)

\* ------------------------------------------------------------ device list
triggerDeviceChange(s) ==
  IF s.mediaDevicesDefined THEN [s EXCEPT !.events = @ + 1]
  ELSE [s EXCEPT !.err = "TypeError"]

\* An addMockDevice that pushes to a copy of the list and dispatches the
\* event.
addMockDeviceOnACopy(s, newDevice) == triggerDeviceChange(s)

addMockDevice(s, newDevice) ==
  triggerDeviceChange(
    [s EXCEPT !.mediaDeviceInfo[s.device] = Append(@, newDevice)])

removeMockDevice(s, deviceId) ==
  triggerDeviceChange(
    [s EXCEPT !.mediaDeviceInfo[s.device] =
                 SelectSeq(@, LAMBDA d : d.deviceId # deviceId)])

\* An enumerateDevices bound to the preset the engine was built with.
enumerateDevicesOfDefaultPreset(s) == s.mediaDeviceInfo["iPhone 12"]

\* The functions mock() installs.
enumerateDevices(s) == s.mediaDeviceInfo[s.device]

getSupportedConstraints(s) == s.constraints

\* ------------------------------------------------------------------ Init
Settled(op, result, value) == [op |-> op, result |-> result, value |-> value]

NothingSettled == Settled("none", "none", "")

Outcome(s) == IF s.err = "" THEN "resolved" ELSE "rejected"

\* Image ids of elements nothing refers to any more are forgotten with
\* the elements.
CommitAll(s) ==
  Commit([s EXCEPT !.imageIds =
            @ \cap ({e.id : e \in {x \in SeqRange(s.attached) : x.tag = "img"}}
                    \cup (IF s.currentImage = None THEN {}
                          ELSE {s.currentImage.id}))])

InitEngine ==
  /\ mediaURL = DefaultURL
  /\ device = "iPhone 12"
  /\ constraints = supportedConstraints("iPhone 12")
  /\ currentImage = None
  /\ currentVideo = None
  /\ mapUnmockFunction = [e \in Entries |-> None]
  /\ currentStream = 0
  /\ intervalId = Null
  /\ rafId = Null
  /\ debug = FALSE
  /\ canvas = None
  /\ ctx = 0
  /\ fps = 30
  /\ resolution = [width |-> 16, height |-> 12]
  /\ mediaTimeout = Number(60 * 1000)
  /\ canvasScaleFactor = Number(100)
  /\ mockedVideoTracksHandler = "identity"
  /\ lastDrawTime = 0

\* Whether a video that the engine loaded plays is never read by the
\* engine: autoplays are the hosts' answers to HTMLMediaElement.play().
InitHostWith(hosts, autoplays) ==
  /\ mediaDevicesDefined \in hosts
  /\ autoplay \in autoplays
  /\ playing = {}
  /\ now = 0
  /\ props = [e \in Entries |-> IF mediaDevicesDefined THEN HostFn
                                ELSE Undefined]
  /\ propKind = [e \in Entries |-> "configurable"]
  /\ rafSupported \in BOOLEAN
  /\ pendingRaf = {}
  /\ pendingInterval = {}
  /\ attached = <<>>
  /\ mediaDeviceInfo = [p \in Presets |-> InitialDeviceList(p)]
  /\ events = 0
  /\ imageIds = {}

\* A host that rejects play() (autoplay blocked), as the test hosts do.
InitHost(hosts) == InitHostWith(hosts, {FALSE})

InitObs ==
  /\ calls = EmptyBag
  /\ streams = <<>>
  /\ closed = FALSE
  /\ deviceOps = 0
  /\ lastMocked = "none"

NoProbe == [op |-> "none"]

InitDriver ==
  /\ lastSettled = NothingSettled
  /\ probe = NoProbe
  /\ cycle = [pc |-> "free", n |-> 0]

\* A browser page: navigator.mediaDevices exists.
Init ==
  InitEngine /\ InitHost({TRUE}) /\ InitObs /\ InitDriver

\* Any host, also one without navigator.mediaDevices.
InitAnyHost ==
  InitEngine /\ InitHost(BOOLEAN) /\ InitObs /\ InitDriver

\* --------------------------------------------------------------- actions
\* Every action leaves in lastSettled what the call that ended in this step
\* returned, and NothingSettled when no call ended with a result.
Pending == BagToSet(calls)

PendingCaptures ==
  BagCardinality([c \in {x \in Pending : x.op = "getUserMedia"} |-> calls[c]])

Mock(dev, options) ==
  /\ CommitAll(mock(Cur, dev, options))
  /\ lastMocked' = dev
  /\ lastSettled' = NothingSettled
  /\ UNCHANGED << calls, deviceOps >>

\* The pending calls, each marked as overtaken by an unmock().
MarkUnmocked(bag) ==
  LET Count(c) == IF c \in DOMAIN bag THEN bag[c] ELSE 0
  IN  [d \in {[c EXCEPT !.unmocked = TRUE] : c \in BagToSet(bag)} |->
         Count(d) + Count([d EXCEPT !.unmocked = FALSE])]

Unmock ==
  /\ CommitAll([unmock(Cur) EXCEPT !.closed = TRUE])
  /\ calls' = MarkUnmocked(calls)
  /\ lastSettled' = NothingSettled
  /\ UNCHANGED << deviceOps, lastMocked >>

\* A validation that does not trim the string.
InvalidMediaURLWithoutTrim(v) == ~ToBoolean(v) \/ v.typeof # "string"

\* "!mediaURL || typeof mediaURL !== 'string' || mediaURL.trim() === ''"
InvalidMediaURL(v) ==
  ~ToBoolean(v) \/ v.typeof # "string" \/ trim(v.str) = EmptyURL

\* A call waiting for its media load: url and timeoutMs are the arguments
\* of loadMedia, c the constraints argument of a getMockStream call.
NewCall(op, url, c) ==
  SetToBag({[op |-> op, url |-> url, timeoutMs |-> mediaTimeout,
             constraints |-> c, unmocked |-> FALSE]})

\* A setMediaURL that stores the url before its load has succeeded.
SetMediaURLCallStoresFirst(v) ==
  /\ BagCardinality(calls) < MaxPending
  /\ ~InvalidMediaURL(v)
  /\ calls' = calls (+) NewCall("setMediaURL", v.str, VideoTrue)
  /\ lastSettled' = NothingSettled
  /\ mediaURL' = v.str
  /\ UNCHANGED << device, constraints, currentImage, currentVideo,
                  mapUnmockFunction, currentStream, intervalId, rafId, debug,
                  canvas, ctx, fps, resolution, mediaTimeout,
                  canvasScaleFactor, mockedVideoTracksHandler, lastDrawTime >>
  /\ UNCHANGED << hostVars, streams, closed, deviceOps, lastMocked >>

\* setMediaURL(v) up to the await of loadMedia.
SetMediaURLCall(v) ==
  /\ BagCardinality(calls) < MaxPending
  /\ IF InvalidMediaURL(v)
     THEN /\ lastSettled' = Settled("setMediaURL", "rejected",
                                    "Invalid mediaURL: must be a non-empty string")
          /\ UNCHANGED calls
     ELSE /\ calls' = calls (+) NewCall("setMediaURL", v.str, VideoTrue)
          /\ lastSettled' = NothingSettled
  /\ UNCHANGED << mmVars, hostVars, streams, closed, deviceOps, lastMocked >>

\* The state at the await of getMockStream (err set when it threw before).
BeforeLoad(s, c, isPortrait, ctxOk) ==
  LET s1 == getMockStreamBeforeLoad(s, c, isPortrait, ctxOk, FreshCanvas(s))
  IN  IF s1.err = "" /\ InvalidMediaURL(Str(s1.mediaURL))
      THEN [s1 EXCEPT !.err = "Invalid mediaURL: must be a non-empty string"]
      ELSE s1

\* navigator.mediaDevices.getUserMedia(c) while intercepted, up to the
\* await of the media reload.
GetUserMediaCall(c, isPortrait, ctxOk) ==
  LET s == BeforeLoad(Cur, c, isPortrait, ctxOk)
  IN  /\ props["getUserMedia"] = MockFn
      /\ BagCardinality(calls) < MaxPending
      /\ (IF closed THEN 0 ELSE Len(streams)) + PendingCaptures < MaxStreams
      /\ CommitAll(s)
      /\ IF s.err # ""
         THEN /\ lastSettled' = Settled("getUserMedia", "rejected", s.err)
              /\ UNCHANGED calls
         ELSE /\ calls' = calls (+) NewCall("getUserMedia", mediaURL, c)
              /\ lastSettled' = NothingSettled
      /\ UNCHANGED << deviceOps, lastMocked >>

\* The state in which a pending call ends when its media load resolves:
\* the rest of setMediaURL and, for a capture, the rest of getMockStream.
AfterLoad(s, call) ==
  LET media == loadMedia(call.url, FreshMedia(s))
      s0 == IF media.tag = "video" THEN playVideo(s, media) ELSE s
      s1 == setMediaURLAfterLoad(s0, call.url, media)
  IN  IF call.op = "getUserMedia" /\ s1.err = ""
      THEN getMockStreamAfterLoad(s1, call.constraints) ELSE s1

\* The media load of a pending call resolves, and the call runs to its end.
LoadResolve(call) ==
  LET s == AfterLoad(Cur, call)
  IN  /\ call \in Pending
      /\ call.url \in LoadableURLs
      /\ CommitAll(s)
      /\ calls' = calls (-) SetToBag({call})
      /\ lastSettled' = Settled(call.op, Outcome(s), s.err)
      /\ UNCHANGED << deviceOps, lastMocked >>

\* The media load of a pending call fails (decode or load error, or
\* timeout); neither setMediaURL nor getMockStream catches the rejection.
LoadReject(call) ==
  /\ call \in Pending
  /\ calls' = calls (-) SetToBag({call})
  /\ lastSettled' = Settled(call.op, "rejected", "load failed")
  /\ UNCHANGED << mmVars, hostVars, streams, closed, deviceOps, lastMocked >>

\* The host runs a requested frame callback.
RafFire(cb, due) ==
  LET s == [Cur EXCEPT !.pendingRaf = @ \ {cb}]
  IN  /\ cb \in pendingRaf
      /\ CommitAll(frameCallback(s, cb, due))
      /\ lastSettled' = NothingSettled
      /\ UNCHANGED << calls, deviceOps, lastMocked >>

\* An interval timer of the render loop ticks.
IntervalFire(tm) ==
  /\ tm \in pendingInterval
  /\ CommitAll(timerCallback(Cur, tm))
  /\ lastSettled' = NothingSettled
  /\ UNCHANGED << calls, deviceOps, lastMocked >>

EnableDebugMode ==
  /\ CommitAll(enableDebugMode(Cur))
  /\ lastSettled' = NothingSettled
  /\ UNCHANGED << calls, deviceOps, lastMocked >>

DisableDebugMode ==
  /\ CommitAll(disableDebugMode(Cur))
  /\ lastSettled' = NothingSettled
  /\ UNCHANGED << calls, deviceOps, lastMocked >>

Returned(op, s) ==
  Settled(op, IF s.err = "" THEN "returned" ELSE "threw", s.err)

AddMockDevice(newDevice) ==
  LET s == addMockDevice(Cur, newDevice)
  IN  /\ deviceOps < MaxDeviceOps
      /\ Len(mediaDeviceInfo[device]) < MaxDevices
      /\ CommitAll(s)
      /\ deviceOps' = deviceOps + 1
      /\ lastSettled' = Returned("addMockDevice", s)
      /\ UNCHANGED << calls, lastMocked >>

RemoveMockDevice(deviceId) ==
  LET s == removeMockDevice(Cur, deviceId)
  IN  /\ deviceOps < MaxDeviceOps
      /\ CommitAll(s)
      /\ deviceOps' = deviceOps + 1
      /\ lastSettled' = Returned("removeMockDevice", s)
      /\ UNCHANGED << calls, lastMocked >>

\* navigator.mediaDevices.enumerateDevices() while intercepted.
EnumerateDevicesCall ==
  /\ props["enumerateDevices"] = MockFn
  /\ lastSettled' = Settled("enumerateDevices", "resolved",
                            enumerateDevices(Cur))
  /\ UNCHANGED << mmVars, hostVars, obsVars >>

\* navigator.mediaDevices.getSupportedConstraints() while intercepted.
GetSupportedConstraintsCall ==
  /\ props["getSupportedConstraints"] = MockFn
  /\ lastSettled' = Settled("getSupportedConstraints", "returned",
                            getSupportedConstraints(Cur))
  /\ UNCHANGED << mmVars, hostVars, obsVars >>

MockOptions == [Entries -> BOOLEAN]

Bounded ==
  Len(attached') <= MaxAttached /\ Cardinality(playing') <= MaxPlaying

\* The capture engine: interception, media swaps, captures, render loop.
\* Its life cycle reads the preset only to resolve the resolution, so the
\* engine is driven with the default preset; SpecCycle and SpecDevices range
\* over the presets.
Next ==
  /\ \/ Mock("iPhone 12", createDefaultMockOptions)
     \/ Unmock
     \/ \E v \in MediaURLValues : SetMediaURLCall(v)
     \/ \E ctxOk \in BOOLEAN : GetUserMediaCall(VideoTrue, FALSE, ctxOk)
     \/ \E call \in Pending : LoadResolve(call)
     \/ \E call \in Pending : LoadReject(call)
     \/ \E cb \in pendingRaf, due \in BOOLEAN : RafFire(cb, due)
     \/ \E tm \in pendingInterval : IntervalFire(tm)
  /\ Bounded
  /\ UNCHANGED << cycle, probe >>

Spec == Init /\ [][Next]_vars

\* The device surface: interception options, device hot-add and removal,
\* and the two synchronous entry points.
NextDevices ==
  /\ \/ \E dev \in Presets, options \in MockOptions : Mock(dev, options)
     \/ Unmock
     \/ \E d \in DeviceInfos : AddMockDevice(d)
     \/ \E id \in DeviceIds : RemoveMockDevice(id)
     \/ EnumerateDevicesCall
     \/ GetSupportedConstraintsCall
  /\ Bounded
  /\ UNCHANGED << cycle, probe >>

SpecDevices == InitAnyHost /\ [][NextDevices]_vars

\* The device list alone: every preset mocked with every combination of
\* option flags in a browser page, devices added and removed, and
\* enumerateDevices called.
NextEnumerate ==
  /\ \/ \E dev \in Presets, options \in MockOptions : Mock(dev, options)
     \/ Unmock
     \/ \E d \in DeviceInfos : AddMockDevice(d)
     \/ \E id \in DeviceIds : RemoveMockDevice(id)
     \/ EnumerateDevicesCall
  /\ Bounded
  /\ UNCHANGED << cycle, probe >>

SpecEnumerate == Init /\ [][NextEnumerate]_vars

\* The sequential driver of the mock/unmock cycle:
\*   mock(device); await setMediaURL(validUrl);
\*   await getUserMedia({video: true}); unmock()
\* while the host keeps running frame callbacks and timer ticks.
ValidURLs == {ImageURL, VideoURL}

At(pc) == cycle.pc = pc
Goto(pc) == cycle' = [cycle EXCEPT !.pc = pc]

NextCycle ==
  /\ \/ /\ At("start") /\ cycle.n < MaxCycles
        /\ \E dev \in Presets : Mock(dev, createDefaultMockOptions)
        /\ Goto("mocked")
     \/ /\ At("mocked")
        /\ \E url \in ValidURLs : SetMediaURLCall(Str(url))
        /\ Goto("awaitSetMediaURL")
     \/ /\ At("awaitSetMediaURL")
        /\ \E call \in Pending : LoadResolve(call)
        /\ Goto("mediaSet")
     \/ /\ At("mediaSet")
        /\ \E isPortrait \in BOOLEAN : GetUserMediaCall(VideoTrue, isPortrait, TRUE)
        /\ Goto("awaitGetUserMedia")
     \/ /\ At("awaitGetUserMedia")
        /\ \E call \in Pending : LoadResolve(call)
        /\ Goto("captured")
     \/ /\ At("captured")
        /\ Unmock
        /\ cycle' = [pc |-> "start", n |-> cycle.n + 1]
     \/ /\ \E cb \in pendingRaf, due \in BOOLEAN : RafFire(cb, due)
        /\ UNCHANGED cycle
     \/ /\ \E tm \in pendingInterval : IntervalFire(tm)
        /\ UNCHANGED cycle
  /\ Bounded
  /\ UNCHANGED probe

InitCycle ==
  InitEngine /\ InitHost(BOOLEAN) /\ InitObs /\ lastSettled = NothingSettled
    /\ cycle = [pc |-> "start", n |-> 0] /\ probe = NoProbe

SpecCycle == InitCycle /\ [][NextCycle]_vars

\* ------------------------------------------------------------- properties
\* The engine holds no loop handle and no stream, canvas, context, image
\* or video, and the host holds no callback or timer of the render loop.
NoSession ==
  /\ rafId = Null /\ intervalId = Null
  /\ pendingRaf = {} /\ pendingInterval = {}
  /\ currentStream = 0 /\ canvas = None /\ ctx = 0
  /\ currentImage = None /\ currentVideo = None

\* No interception is recorded by the engine or installed on the host.
NoInterception ==
  /\ \A e \in Entries : mapUnmockFunction[e] = None
  /\ \A e \in Entries : props[e] # MockFn

Clean == NoSession /\ NoInterception

LoopRunning ==
  \/ rafId # Null /\ \E cb \in pendingRaf : cb.id = rafId
  \/ intervalId # Null /\ \E tm \in pendingInterval : tm.id = intervalId

\* C1: after one or more mock() calls, a single unmock() leaves each of
\* getUserMedia, getSupportedConstraints and enumerateDevices at the value
\* it held before the first mock() (in a browser page: the host function).
C1_UnmockRestoresPreMockValue ==
  [][Unmock => \A e \in Entries : props'[e] = HostFn]_vars

\* C2: unmock() leaves a clean state (no interception recorded or
\* installed, no loop handle, no stream, canvas, context, image or video),
\* in whatever state it is called, and a second unmock() changes nothing.
C2_UnmockLeavesCleanState ==
  [][Unmock => Clean' /\ unmock(Cur)' = Cur']_vars

\* C3: after unmock(), every video track of every stream handed out since
\* the previous unmock() is ended.
C3_EveryTrackEndedAfterUnmock ==
  closed => \A i \in 1..Len(streams) : streams[i].readyState = "ended"

\* C4: when unmock() ran while a setMediaURL or getUserMedia call was
\* awaiting its media load, the session is still clean once that load has
\* settled: no image, video, stream, canvas or loop handle is installed.
C4_LateLoadLeavesSessionClean ==
  [][\A call \in Pending :
       (call.unmocked /\ NoSession /\ (LoadResolve(call) \/ LoadReject(call)))
         => NoSession']_vars

\* C5: at most one render loop is active: rafId and intervalId are never
\* both set, at most one frame callback or interval timer is pending, it is
\* the one the engine holds the handle of, and startDrawingLoop leaves no
\* second one behind in whatever state it is called.
OneLoop(s) ==
  /\ ~(s.rafId # Null /\ s.intervalId # Null)
  /\ Cardinality(s.pendingRaf) + Cardinality(s.pendingInterval) <= 1
  /\ \A cb \in s.pendingRaf : cb.id = s.rafId
  /\ \A tm \in s.pendingInterval : tm.id = s.intervalId

C5_AtMostOneRenderLoop ==
  OneLoop(Cur) /\ OneLoop(startDrawingLoop(Cur))

\* A loop that was started while another one was running: a second stream
\* was handed out with the first one still open.
C5_Witness ==
  Len(streams) = 2 /\ ~closed /\ LoopRunning

\* C6: a setMediaURL call whose load fails rejects and changes nothing, from
\* the call to the rejection: settings.mediaURL, the current image or video
\* and the render loop stay as they were, and a url that cannot be loaded
\* is never the active media.
MediaAndLoop ==
  << mediaURL, currentImage, currentVideo, rafId, intervalId, pendingRaf,
     pendingInterval >>

C6_FailedSwapChangesNothing ==
  /\ [][(\/ \E v \in MediaURLValues : SetMediaURLCall(v)
         \/ \E call \in Pending : call.op = "setMediaURL" /\ LoadReject(call))
          => UNCHANGED MediaAndLoop]_vars
  /\ [](mediaURL \in LoadableURLs \cup {DefaultURL})

\* A swap failed while a loop was drawing an image loaded before.
C6_Witness ==
  /\ lastSettled = Settled("setMediaURL", "rejected", "load failed")
  /\ mediaURL = ImageURL /\ currentImage # None /\ LoopRunning

\* C7: repeating the cycle mock(device), await setMediaURL(validUrl),
\* await getUserMedia({video: true}), unmock() never throws or rejects,
\* and from the moment getUserMedia resolves the current stream has a live
\* video track and a render loop is running.
C7_CycleNeverFailsAndStreamIsLive ==
  /\ lastSettled.result \notin {"rejected", "threw"}
  /\ lastSettled.op = "getUserMedia" => At("captured")
  /\ At("captured") =>
       /\ currentStream # 0
       /\ streams[currentStream].readyState = "live"
       /\ LoopRunning

\* getUserMedia has just resolved in the last cycle the driver runs.
C7_Witness ==
  /\ cycle.n = MaxCycles - 1
  /\ At("captured")
  /\ lastSettled = Settled("getUserMedia", "resolved", "")

\* C8: the intercepted getSupportedConstraints returns the
\* supportedConstraints map of the preset passed to the most recent mock().
C8_SupportedConstraintsOfMockedPreset ==
  lastSettled.op = "getSupportedConstraints" =>
    lastSettled.value = supportedConstraints(lastMocked)

\* C9: the intercepted enumerateDevices resolves with the device list of
\* the preset passed to the most recent mock(), and two calls in a row
\* resolve with the same list.
C9_DeviceListOfMockedPreset ==
  /\ [](lastSettled.op = "enumerateDevices" =>
          lastSettled.value = mediaDeviceInfo[lastMocked])
  /\ [][(lastSettled.op = "enumerateDevices"
          /\ lastSettled'.op = "enumerateDevices")
          => lastSettled'.value = lastSettled.value]_vars

\* enumerateDevices was called after mock() had been called again, while
\* mocked, with a preset whose list differs from that of the default one.
C9_Witness ==
  /\ lastSettled.op = "enumerateDevices"
  /\ lastMocked = "Custom"
  /\ mapUnmockFunction["enumerateDevices"] # None
  /\ mapUnmockFunction["enumerateDevices"].original = MockFn
  /\ lastSettled.value # mediaDeviceInfo["iPhone 12"]

\* C10: each addMockDevice(d) appends d to the active preset's list, each
\* removeMockDevice(id) removes every entry with that deviceId, and each
\* such call dispatches exactly one devicechange event.
C10_OneEventPerDeviceCall ==
  [][/\ \A d \in DeviceInfos : AddMockDevice(d) =>
          /\ events' = events + 1
          /\ mediaDeviceInfo'[device] = Append(mediaDeviceInfo[device], d)
     /\ \A id \in DeviceIds : RemoveMockDevice(id) =>
          /\ events' = events + 1
          /\ \A i \in 1..Len(mediaDeviceInfo'[device]) :
               mediaDeviceInfo'[device][i].deviceId # id]_vars

\* Interception alone: mock() with every preset and every combination of
\* option flags, and unmock(), on hosts with and without
\* navigator.mediaDevices.
NextIntercept ==
  /\ \/ \E dev \in Presets, options \in MockOptions : Mock(dev, options)
     \/ Unmock
  /\ UNCHANGED << cycle, probe >>

SpecIntercept == InitAnyHost /\ [][NextIntercept]_vars

\* C11: starting with no interception installed, mock(device, options)
\* replaces exactly the entry points whose option flag is true and records a
\* restore function for exactly those; the others keep their host value and
\* get no restore function; after unmock() no restore function is recorded.
C11_MockInterceptsExactlyTheFlagged ==
  [][/\ \A dev \in Presets, options \in MockOptions :
          (NoInterception /\ Mock(dev, options)) =>
            \A e \in Entries :
              IF options[e]
              THEN props'[e] = MockFn /\ mapUnmockFunction'[e] # None
              ELSE props'[e] = props[e] /\ mapUnmockFunction'[e] = None
     /\ Unmock => \A e \in Entries : mapUnmockFunction'[e] = None]_vars

\* mock() was called with getUserMedia alone flagged.
C11_Witness ==
  /\ props = [e \in Entries |-> IF e = "getUserMedia" THEN MockFn ELSE HostFn]
  /\ mapUnmockFunction["getUserMedia"] # None
  /\ mapUnmockFunction["getUserMedia"].original = HostFn
  /\ mapUnmockFunction["enumerateDevices"] = None
  /\ mapUnmockFunction["getSupportedConstraints"] = None

\* ------------------------------------------------------- restrictive hosts
\* A page whose navigator.mediaDevices lets each entry point be replaced in
\* its own way (see PropKinds).
InitRestrictive ==
  /\ InitEngine /\ InitObs /\ InitDriver
  /\ mediaDevicesDefined = TRUE
  /\ props = [e \in Entries |-> HostFn]
  /\ propKind \in [Entries -> PropKinds]
  /\ rafSupported = TRUE
  /\ pendingRaf = {} /\ pendingInterval = {}
  /\ attached = <<>>
  /\ mediaDeviceInfo = [p \in Presets |-> InitialDeviceList(p)]
  /\ events = 0
  /\ imageIds = {}
  /\ autoplay = FALSE /\ playing = {} /\ now = 0

NextRestrictive ==
  /\ \/ \E options \in MockOptions : Mock("iPhone 12", options)
     \/ Unmock
  /\ UNCHANGED << cycle, probe >>

SpecRestrictive == InitRestrictive /\ [][NextRestrictive]_vars

\* Both Object.defineProperty and direct assignment fail for the entry.
Refused(e) == ~CanDefine(propKind[e]) /\ ~CanAssign(propKind[e])

\* What one mock() from no interception leaves: every recorded restore
\* function holds the host value, every unrecorded entry point has it.
MockedOnce ==
  \A e \in Entries :
    IF mapUnmockFunction[e] # None
    THEN mapUnmockFunction[e].original = HostFn
    ELSE props[e] = HostFn

BadReference(v) ==
  v.typeof # "string" \/ v.str = EmptyURL \/ v.str = BlankURL

\* C13: setMediaURL(ref) with ref empty, whitespace-only or not a string
\* rejects with "Invalid mediaURL: must be a non-empty string"; no load is
\* started, and the stored reference, the media source and the render loop
\* are unchanged.
C13_InvalidReferenceRejected ==
  [][\A v \in MediaURLValues :
       (BadReference(v) /\ SetMediaURLCall(v)) =>
         /\ lastSettled' = Settled("setMediaURL", "rejected",
                                   "Invalid mediaURL: must be a non-empty string")
         /\ UNCHANGED calls
         /\ UNCHANGED MediaAndLoop]_vars

\* A bad reference was rejected while a loop was drawing an image set before.
C13_Witness ==
  /\ lastSettled = Settled("setMediaURL", "rejected",
                           "Invalid mediaURL: must be a non-empty string")
  /\ mediaURL = ImageURL /\ currentImage # None /\ LoopRunning

\* setMediaTimeout(timeoutMs)
setMediaTimeout(s, timeoutMs) ==
  IF LessEq(timeoutMs, Number(0))
  THEN [s EXCEPT !.err = "Media timeout must be a positive number"]
  ELSE [s EXCEPT !.mediaTimeout = timeoutMs]

\* setCanvasScaleFactor(factor); factors are counted in hundredths.
setCanvasScaleFactor(s, factor) ==
  [s EXCEPT !.canvasScaleFactor = MathMax(Number(10), factor)]

SetMediaTimeout(timeoutMs) ==
  LET s == setMediaTimeout(Cur, timeoutMs)
  IN  /\ CommitAll(s)
      /\ lastSettled' = Returned("setMediaTimeout", s)
      /\ UNCHANGED << calls, deviceOps, lastMocked >>

SetCanvasScaleFactor(factor) ==
  LET s == setCanvasScaleFactor(Cur, factor)
  IN  /\ CommitAll(s)
      /\ lastSettled' = Returned("setCanvasScaleFactor", s)
      /\ UNCHANGED << calls, deviceOps, lastMocked >>

\* Arguments of the setters: -1000, 0, 30000 and NaN milliseconds; the
\* factors 0.05, 0.5, 1.5 and NaN.
TimeoutInputs == {Number(0 - 1000), Number(0), Number(30 * 1000), NaN}
FactorInputs  == {Number(5), Number(50), Number(150), NaN}

NextSettings ==
  /\ \/ \E timeoutMs \in TimeoutInputs : SetMediaTimeout(timeoutMs)
     \/ \E factor \in FactorInputs : SetCanvasScaleFactor(factor)
     \/ \E url \in {ImageURL, MissingURL} : SetMediaURLCall(Str(url))
     \/ \E call \in Pending : LoadResolve(call)
     \/ \E call \in Pending : LoadReject(call)
     \/ Mock("iPhone 12", createDefaultMockOptions)
     \/ Unmock
  /\ Bounded
  /\ UNCHANGED << cycle, probe >>

SpecSettings == Init /\ [][NextSettings]_vars

\* C14: setMediaTimeout(ms) throws "Media timeout must be a positive number"
\* for ms <= 0 and leaves settings.mediaTimeout unchanged; for ms > 0 it
\* stores ms; every load started later has the stored value as its timeout;
\* hence settings.mediaTimeout is positive after every sequence of public
\* operations.
C14_MediaTimeoutAlwaysPositive ==
  /\ [][/\ \A ms \in TimeoutInputs :
             SetMediaTimeout(ms) =>
               /\ LessEq(ms, Number(0)) =>
                    /\ lastSettled' = Settled("setMediaTimeout", "threw",
                                              "Media timeout must be a positive number")
                    /\ UNCHANGED mediaTimeout
               /\ Greater(ms, Number(0)) => mediaTimeout' = ms
        /\ \A url \in InputURLs :
             SetMediaURLCall(Str(url)) =>
               \A call \in BagToSet(calls') \ BagToSet(calls) :
                 call.timeoutMs = mediaTimeout]_vars
  /\ [](Greater(mediaTimeout, Number(0)))

\* C15: setCanvasScaleFactor(f) stores max(0.1, f); hence
\* settings.canvasScaleFactor >= 0.1 after every sequence of public
\* operations.
C15_ScaleFactorAtLeastTenth ==
  /\ [][\A f \in FactorInputs :
          (SetCanvasScaleFactor(f) /\ ~f.nan) =>
            canvasScaleFactor' = (IF f.v < 10 THEN Number(10) ELSE f)]_vars
  /\ [](~canvasScaleFactor.nan /\ canvasScaleFactor.v >= 10)

\* ------------------------------------------------- resolving a resolution
\* Width and height constraints, in units of 40 pixels: absent, numbers,
\* and range objects with ideal and max, with exact only, with max only
\* and with min only (no member that the resolver reads).
DimensionConstraints ==
  {NoValue, Num(48), Num(27), Num(32), Num(30), Num(12), Num(16), Num(20),
   Range(18, Absent, 48), Range(Absent, 15, Absent),
   Range(Absent, Absent, 24), Range(Absent, Absent, Absent)}
ResolveConstraints ==
  {VideoTrue} \cup
  {VideoObject(w, h, NoValue, NoValue) : w \in DimensionConstraints,
                                     h \in DimensionConstraints}

\* getResolution(constraints, deviceConfig) in a viewport that is or is
\* not portrait (window.innerHeight > window.innerWidth).
ApplyGetResolution(c, deviceConfig, isPortrait) ==
  LET res == getResolution(c, deviceConfig, isPortrait)
  IN  /\ probe' = [op |-> "getResolution", constraints |-> c,
                   deviceConfig |-> deviceConfig, isPortrait |-> isPortrait,
                   targetWidth |-> extractConstraintValue(c.width, 16),
                   targetHeight |-> extractConstraintValue(c.height, 12),
                   threw |-> res = None,
                   result |-> IF res = None THEN [width |-> 0, height |-> 0]
                              ELSE res]
      /\ lastSettled' = NothingSettled
      /\ UNCHANGED << mmVars, hostVars, obsVars, cycle >>

NextResolve ==
  \E c \in ResolveConstraints, deviceConfig \in ResolverPresets,
     isPortrait \in BOOLEAN :
    ApplyGetResolution(c, deviceConfig, isPortrait)

SpecResolve == Init /\ [][NextResolve]_vars

Resolved == probe.op = "getResolution"
TargetWidth  == extractConstraintValue(probe.constraints.width, 16)
TargetHeight == extractConstraintValue(probe.constraints.height, 12)
ResolutionList == videoResolutions(probe.deviceConfig)
InList(w, h) ==
  \E i \in 1..Len(ResolutionList) :
    ResolutionList[i] = [width |-> w, height |-> h]
Returns(w, h) ==
  ~probe.threw /\ probe.result = [width |-> w, height |-> h]

Candidates ==
  {IF probe.isPortrait /\ ResolutionList[i].width > ResolutionList[i].height
   THEN Swap(ResolutionList[i]) ELSE ResolutionList[i] :
     i \in 1..Len(ResolutionList)}
NoExactMatch ==
  /\ ~InList(TargetWidth, TargetHeight)
  /\ ~(probe.isPortrait /\ InList(TargetHeight, TargetWidth))

\* C17: when the list is not empty and the exact-match rule finds nothing,
\* getResolution returns a candidate of minimum score
\* 2*|cw/ch - tw/th| + |cw*ch - tw*th|/(tw*th), the candidates being the
\* list entries, each transposed when the viewport is portrait and the
\* entry is wider than tall.
C17_BestFit ==
  (Resolved /\ Len(ResolutionList) > 0 /\ NoExactMatch) =>
    /\ ~probe.threw
    /\ probe.result \in Candidates
    /\ \A cand \in Candidates :
         ~ScoreLess(cand, probe.result, TargetWidth, TargetHeight)

\* 1200x720 asked of the iPhone 12 list in a portrait viewport gave the
\* transposed second entry, 720x1280.
C17_Witness ==
  /\ Resolved /\ probe.isPortrait /\ probe.deviceConfig = "iPhone 12"
  /\ TargetWidth = 30 /\ TargetHeight = 18
  /\ Returns(18, 32)

\* C18: with an empty resolution list getResolution returns 640x480 for
\* every constraint set and either orientation.
C18_EmptyListGives640x480 ==
  (Resolved /\ Len(ResolutionList) = 0) => Returns(16, 12)

\* ------------------------------------------------------------ video tracks
\* Entries of caller-built presets: a second back camera, a microphone, and
\* a camera listed with empty label and deviceId.
BackWide == [deviceId |-> "backwide", kind |-> "videoinput",
             label |-> "Back Ultra Wide Camera", facingMode |-> <<"environment">>]
Mic      == [deviceId |-> "mic", kind |-> "audioinput", label |-> "Microphone",
             facingMode |-> <<>>]
Unnamed  == [deviceId |-> "", kind |-> "videoinput", label |-> "",
             facingMode |-> <<"user">>]
TrackLists ==
  { <<Usb>>, <<Back, Front, BackWide>>, <<Mic, Front, Back>>, <<Mic>>,
    <<Back, Unnamed>> }

FacingModes ==
  { NoValue, Mode("environment"), Mode("user"), Mode("left"),
    Modes(<<"environment">>),
    ModeObject(Mode("environment"), NoValue),
    ModeObject(Modes(<<"user", "environment">>), Mode("environment")),
    ModeObject(NoValue, Modes(<<"environment", "user">>)),
    ModeObject(Mode(""), Mode("user")) }
TrackConstraints ==
  {VideoTrue, VideoObject(Num(32), Num(18), Num(15), NoValue)} \cup
  {VideoObject(NoValue, NoValue, NoValue, m) : m \in FacingModes}

\* What the platform's own getSettings() of a canvas capture track returns:
\* each of width, height and frameRate a number or Absent (undefined).
PlatformSettings ==
  [width : {Absent, 8}, height : {Absent, 6}, frameRate : {Absent, 60}]

\* A wrapper that fills each missing member on its own.
getSettingsMemberByMember(s, settings) ==
  [width |-> IF settings.width = Absent THEN s.resolution.width
             ELSE settings.width,
   height |-> IF settings.height = Absent THEN s.resolution.height
              ELSE settings.height,
   frameRate |-> IF settings.frameRate = Absent THEN s.fps
                 ELSE settings.frameRate]

\* track.getSettings() of a mocked track, settings being what the
\* platform's own getSettings() returned.
getSettings(s, settings) ==
  LET s1 == IF settings.frameRate = Absent
            THEN [settings EXCEPT !.frameRate = s.fps] ELSE settings
  IN  IF s1.width = Absent \/ s1.height = Absent
      THEN [s1 EXCEPT !.width = s.resolution.width,
                      !.height = s.resolution.height]
      ELSE s1

\* getSettings() is called on the video track of stream i.
GetSettingsCall(i, settings) ==
  /\ i \in 1..Len(streams)
  /\ probe' = [op |-> "getSettings", platform |-> settings,
               resolution |-> resolution, fps |-> fps,
               result |-> getSettings(Cur, settings)]
  /\ lastSettled' = Returned("getSettings", Cur)
  /\ UNCHANGED << mmVars, hostVars, obsVars, cycle >>

\* A page on which the caller has built the "Custom" preset with one of the
\* device lists above.
InitTracks ==
  /\ InitEngine /\ InitObs /\ InitDriver
  /\ mediaDevicesDefined = TRUE
  /\ props = [e \in Entries |-> HostFn]
  /\ propKind = [e \in Entries |-> "configurable"]
  /\ rafSupported = TRUE
  /\ pendingRaf = {} /\ pendingInterval = {}
  /\ attached = <<>>
  /\ \E list \in TrackLists :
       mediaDeviceInfo = [p \in Presets |-> IF p = "Custom" THEN list
                                            ELSE InitialDeviceList(p)]
  /\ events = 0
  /\ imageIds = {}
  /\ autoplay = FALSE /\ playing = {} /\ now = 0

\* A caller that awaits each getUserMedia before it asks for the next.
AwaitedGetUserMedia(c) ==
  calls = EmptyBag /\ GetUserMediaCall(c, FALSE, TRUE)

NextTracks ==
  /\ \/ \E dev \in Presets : Mock(dev, createDefaultMockOptions)
     \/ Unmock
     \/ \E c \in TrackConstraints : AwaitedGetUserMedia(c)
     \/ \E call \in Pending : LoadResolve(call)
  /\ Bounded
  /\ UNCHANGED << cycle, probe >>

SpecTracks == InitTracks /\ [][NextTracks]_vars

\* The facing mode a constraint set asks for ("" when it asks for none): a
\* string, or the value or first array element of ideal, else of exact.
RequestedMode(c) ==
  LET fm == c.facingMode
      Of(x) == IF x.t = "string" THEN x.v
               ELSE IF x.t = "array" /\ Len(x.list) > 0 THEN x.list[1]
               ELSE ""
  IN  IF c.video # "object" THEN ""
      ELSE IF fm.t = "string" THEN fm.v
      ELSE IF fm.t = "object"
      THEN IF Of(fm.ideal) # "" \/ fm.ideal.t = "array" THEN Of(fm.ideal)
           ELSE Of(fm.exact)
      ELSE ""

\* The videoinput entries of the current preset.
VideoInputs ==
  SelectSeq(mediaDeviceInfo[device], LAMBDA d : d.kind = "videoinput")

\* The last videoinput entry whose capabilities.facingMode includes the
\* requested mode; the first videoinput entry when none does or no mode
\* is requested.
SelectedEntry(c) ==
  LET hits == {i \in 1..Len(VideoInputs) :
                 \E k \in 1..Len(VideoInputs[i].facingMode) :
                   VideoInputs[i].facingMode[k] = RequestedMode(c)}
  IN  IF RequestedMode(c) # "" /\ hits # {}
      THEN VideoInputs[CHOOSE i \in hits : \A j \in hits : j <= i]
      ELSE VideoInputs[1]

\* A getUserMedia call resolves in this step with a new stream.
Captures(call) ==
  /\ call.op = "getUserMedia"
  /\ LoadResolve(call)
  /\ lastSettled'.result = "resolved"

NewTrack == streams'[Len(streams')]

SettingsConstraints ==
  {VideoTrue, VideoObject(Num(32), Num(18), Num(15), NoValue)}

NextTrackSettings ==
  \/ /\ \/ Mock("iPhone 12", createDefaultMockOptions)
        \/ Unmock
        \/ \E c \in SettingsConstraints : AwaitedGetUserMedia(c)
        \/ \E call \in Pending : LoadResolve(call)
     /\ Bounded
     /\ UNCHANGED << cycle, probe >>
  \/ \E i \in 1..Len(streams), settings \in PlatformSettings :
       GetSettingsCall(i, settings)

SpecTrackSettings == Init /\ [][NextTrackSettings]_vars

SettingsRead == probe.op = "getSettings"
AllNumeric(settings) ==
  settings.width # Absent /\ settings.height # Absent
    /\ settings.frameRate # Absent

\* C19 as stated: getSettings() of a mocked video track reports numeric
\* width, height and frameRate, each the platform's own value when the
\* platform track provides it, otherwise the engine's resolution and fps.
C19_PlatformValueWhenProvided ==
  SettingsRead =>
    /\ AllNumeric(probe.result)
    /\ probe.result.width =
         (IF probe.platform.width # Absent THEN probe.platform.width
          ELSE probe.resolution.width)
    /\ probe.result.height =
         (IF probe.platform.height # Absent THEN probe.platform.height
          ELSE probe.resolution.height)
    /\ probe.result.frameRate =
         (IF probe.platform.frameRate # Absent THEN probe.platform.frameRate
          ELSE probe.fps)

\* C19: getSettings() of a mocked video track reports numeric width, height
\* and frameRate: width and height are the platform's own when the platform
\* track provides both, otherwise both are the engine's resolution;
\* frameRate is the platform's own when provided, otherwise the engine's
\* fps.
C19_SettingsAlwaysNumeric ==
  SettingsRead =>
    /\ AllNumeric(probe.result)
    /\ IF probe.platform.width # Absent /\ probe.platform.height # Absent
       THEN /\ probe.result.width = probe.platform.width
            /\ probe.result.height = probe.platform.height
       ELSE /\ probe.result.width = probe.resolution.width
            /\ probe.result.height = probe.resolution.height
    /\ probe.result.frameRate =
         (IF probe.platform.frameRate # Absent THEN probe.platform.frameRate
          ELSE probe.fps)

\* The platform gave a width but no height and no frame rate, after a
\* capture of 1280x720 at 15 frames per second.
C19_Witness ==
  /\ SettingsRead
  /\ probe.platform = [width |-> 8, height |-> Absent, frameRate |-> Absent]
  /\ probe.result = [width |-> 32, height |-> 18, frameRate |-> 15]

\* ------------------------------------------------------- tracks handler
SetMockedVideoTracksHandler(handler) ==
  LET s == setMockedVideoTracksHandler(Cur, handler)
  IN  /\ CommitAll(s)
      /\ lastSettled' = Returned("setMockedVideoTracksHandler", s)
      /\ UNCHANGED << calls, deviceOps, lastMocked >>

\* The load of a pending call resolves; probe shows the handler
\* invocations made while the call ran to its end.
LoadResolveObserved(call) ==
  /\ LoadResolve(call)
  /\ probe' = [op |-> "handler", log |-> AfterLoad(Cur, call).handlerLog]

NextHandler ==
  /\ \/ /\ \/ Mock("iPhone 12", createDefaultMockOptions)
           \/ Unmock
           \/ \E handler \in HandlerKinds : SetMockedVideoTracksHandler(handler)
           \/ \E c \in ConstraintSets : AwaitedGetUserMedia(c)
        /\ UNCHANGED probe
     \/ \E call \in Pending : LoadResolveObserved(call)
  /\ Bounded
  /\ UNCHANGED cycle

SpecHandler == Init /\ [][NextHandler]_vars

\* C21: the stream a capture call returns holds exactly the tracks the
\* handler returned; the handler is invoked once in the call, with the
\* track that already has its label, id and getSettings overrides; and
\* the stream stored as the active stream is the one returned.
C21_StreamHoldsHandlerTracks ==
  [][\A call \in Pending :
       Captures(call) =>
         /\ Len(probe'.log) = 1
         /\ Len(probe'.log[1].given) = 1
         /\ probe'.log[1].given[1].getSettings = "wrapper"
         /\ probe'.log[1].given[1].label =
              SelectedEntry(call.constraints).label
         /\ probe'.log[1].given[1].id =
              SelectedEntry(call.constraints).deviceId
         /\ IF NewTrack.inStream
            THEN probe'.log[1].returned = probe'.log[1].given
            ELSE probe'.log[1].returned = <<>>
         /\ currentStream' = Len(streams')]_vars

\* A capture resolved with a handler that returns no track: the stream is
\* empty.
C21_Witness ==
  /\ lastSettled = Settled("getUserMedia", "resolved", "")
  /\ mockedVideoTracksHandler = "drop"
  /\ probe.op = "handler" /\ Len(probe.log) = 1
  /\ probe.log[1].returned = <<>>
  /\ ~streams[currentStream].inStream

\* The value the claim assigns to a constraint.
ClaimedTarget(constraint, defaultValue) ==
  CASE constraint.t = "num" -> constraint.v
    [] constraint.t = "range" /\ constraint.ideal # Absent -> constraint.ideal
    [] constraint.t = "range" /\ constraint.ideal = Absent
         /\ constraint.exact # Absent -> constraint.exact
    [] constraint.t = "range" /\ constraint.ideal = Absent
         /\ constraint.exact = Absent /\ constraint.max # Absent
         -> constraint.max
    [] OTHER -> defaultValue

SwapURLs == {ImageURL, VideoURL}

NextSwap ==
  /\ \/ Mock("iPhone 12", createDefaultMockOptions)
     \/ Unmock
     \/ \E url \in SwapURLs : SetMediaURLCall(Str(url))
     \/ \E c \in ConstraintSets : AwaitedGetUserMedia(c)
     \/ \E call \in Pending : LoadResolve(call)
     \/ \E call \in Pending : LoadReject(call)
     \/ \E cb \in pendingRaf : RafFire(cb, TRUE)
     \/ \E tm \in pendingInterval : IntervalFire(tm)
  /\ Bounded
  /\ UNCHANGED << cycle, probe >>

SpecSwap == Init /\ [][NextSwap]_vars

\* The engine holds the handle of a render loop.
Running == rafId # Null \/ intervalId # Null

\* The source the engine holds is the one loaded from url.
SourceIs(url) ==
  IF isVideoURL(url)
  THEN currentImage = None /\ currentVideo # None /\ currentVideo.url = url
  ELSE currentVideo = None /\ currentImage # None /\ currentImage.url = url

\* C22: when a setMediaURL(url) succeeds while a render loop is Running, then
\* at the moment its promise resolves the old loop is stopped and exactly
\* one loop is running: it draws the new source, at the resolution and fps
\* the engine had, which the swap leaves unchanged, and the streams and the
\* readyState of their tracks are untouched; when it succeeds while no loop
\* is Running, no loop is started.
C22_SwapRestartsRunningLoop ==
  [][\A call \in Pending :
       (call.op = "setMediaURL" /\ LoadResolve(call)
          /\ lastSettled'.result = "resolved")
       => /\ mediaURL' = call.url /\ SourceIs(call.url)'
          /\ resolution' = resolution /\ fps' = fps
          /\ streams' = streams /\ currentStream' = currentStream
          /\ IF Running
             THEN /\ Running' /\ OneLoop(Cur)'
                  /\ \A cb \in pendingRaf' \cup pendingInterval' :
                       /\ cb.kind = (IF isVideoURL(call.url) THEN "video"
                                     ELSE "image")
                       /\ cb.width = resolution.width
                       /\ cb.height = resolution.height
                       /\ cb.fps = fps
                  /\ Cardinality(pendingRaf' \cup pendingInterval') = 1
             ELSE /\ ~Running'
                  /\ pendingRaf' = {} /\ pendingInterval' = {}]_vars

\* An image was swapped for a video while the loop of a live stream was
\* running: the loop now draws the video and the track is still live.
C22_Witness ==
  /\ lastSettled = Settled("setMediaURL", "resolved", "")
  /\ mediaURL = VideoURL /\ SourceIs(VideoURL)
  /\ currentStream # 0 /\ streams[currentStream].readyState = "live"
  /\ \E cb \in pendingRaf \cup pendingInterval : cb.kind = "video"

\* The source, if the engine holds one, was loaded from settings.mediaURL.
SourceOfMediaURL ==
  /\ currentImage = None \/ currentVideo = None
  /\ currentImage # None => currentImage.url = mediaURL
  /\ currentVideo # None => currentVideo.url = mediaURL

\* C28: with media loads that overlap (swaps that are not awaited, a swap
\* issued during the reload of a capture), each load that resolves makes
\* settings.mediaURL and the current source its own, in the order in which
\* the loads resolve, so that both belong to the load that resolved last; a
\* load that fails changes neither; nothing else changes them, except that
\* unmock() drops the source; and at every moment the source the engine
\* holds is the one loaded from settings.mediaURL.
C28_ReferenceAndSourceOfSameLoad ==
  /\ [][\A call \in Pending :
          /\ LoadResolve(call) => mediaURL' = call.url /\ SourceIs(call.url)'
          /\ LoadReject(call) =>
               UNCHANGED << mediaURL, currentImage, currentVideo >>]_vars
  /\ [][~UNCHANGED << mediaURL, currentImage, currentVideo >>
          => \/ \E call \in Pending : LoadResolve(call)
             \/ Unmock /\ mediaURL' = mediaURL]_vars
  /\ []SourceOfMediaURL

\* The load of a video resolved while the load of an image, started
\* before or after it, is still pending.
C28_Witness ==
  /\ lastSettled = Settled("setMediaURL", "resolved", "")
  /\ mediaURL = VideoURL /\ SourceIs(VideoURL)
  /\ \E call \in Pending : call.op = "setMediaURL" /\ call.url = ImageURL

\* --------------------------------------------------------------- playback
\* The engine on hosts that let a loaded video play and on hosts that do
\* not: swaps between the default image, an image and a video, and
\* captures, each of which reloads the current reference.
NextPlayback ==
  /\ \/ Mock("iPhone 12", createDefaultMockOptions)
     \/ Unmock
     \/ \E url \in SwapURLs : SetMediaURLCall(Str(url))
     \/ AwaitedGetUserMedia(VideoTrue)
     \/ \E call \in Pending : LoadResolve(call)
     \/ \E call \in Pending : LoadReject(call)
  /\ Bounded
  /\ UNCHANGED << cycle, probe >>

InitPlayback ==
  InitEngine /\ InitHostWith({TRUE}, BOOLEAN) /\ InitObs /\ InitDriver

SpecPlayback == InitPlayback /\ [][NextPlayback]_vars

\* C23: whenever the load of a setMediaURL or of a capture call resolves and
\* replaces the current source, a video element that was the source before
\* is not playing afterwards, whatever the type of the new source; and at
\* most one video element that the engine created is playing at any time.
C23_PreviousSourceDisposed ==
  /\ [][\A call \in Pending :
          (LoadResolve(call) /\ currentVideo # None)
          => currentVideo \notin playing']_vars
  /\ [](Cardinality(playing) <= 1)

\* ------------------------------------------------------------- debug mode
\* Debug mode switched on and off before, between and after captures and
\* swaps of an image source.
NextDebug ==
  /\ \/ Mock("iPhone 12", createDefaultMockOptions)
     \/ Unmock
     \/ EnableDebugMode
     \/ DisableDebugMode
     \/ SetMediaURLCall(Str(ImageURL))
     \/ AwaitedGetUserMedia(VideoTrue)
     \/ \E call \in Pending : LoadResolve(call)
     \/ \E cb \in pendingRaf : RafFire(cb, TRUE)
     \/ \E tm \in pendingInterval : IntervalFire(tm)
  /\ Bounded
  /\ UNCHANGED << cycle, probe >>

SpecDebug == Init /\ [][NextDebug]_vars

\* C24: when disableDebugMode() or unmock() returns, no canvas or image that
\* the engine appended to the document is attached any more, however many
\* captures and swaps happened while debug mode was enabled.
C24_NothingAttachedAfterDisable ==
  [][(DisableDebugMode \/ Unmock) => attached' = << >>]_vars

\* C25: when an intercepted getUserMedia call resolves with debug mode
\* enabled, the canvas of that call and, for an image source, the current
\* image are attached to document.body; when it resolves with debug mode
\* disabled, no element of the engine is attached to the document.
C25_AttachedIffDebug ==
  [][\A call \in Pending :
       (call.op = "getUserMedia" /\ LoadResolve(call)
          /\ lastSettled'.result = "resolved")
       => IF debug'
          THEN /\ canvas' # None /\ canvas' \in SeqRange(attached')
               /\ currentImage' # None => currentImage' \in SeqRange(attached')
          ELSE attached' = << >>]_vars

\* ------------------------------------------------------- one media load
\* loadMedia(url, timeoutMs) followed from its start until its promise has
\* settled and its timer is gone; the engine's LoadResolve and LoadReject
\* are the two ways it can end.  The host decides whether and when the
\* image decodes, the video delivers "loadeddata" or "error" and play()
\* settles; the only thing it is bound to do is to run a pending timer.
NewLoad(url, timeoutMs) ==
  [op |-> "loadMedia", url |-> url, timeoutMs |-> timeoutMs,
   tag |-> IF isVideoURL(url) THEN "video" ELSE "img",
   promise |-> "pending",          \* the promise loadMedia returned
   reason |-> "",
   timer |-> "pending",            \* the setTimeout of the load
   source |-> "pending",           \* image.decode() / the video's data
   listeners |-> isVideoURL(url),  \* "loadeddata" and "error" listeners
   isPromiseSettled |-> FALSE,
   play |-> "none",                \* the promise of videoElement.play()
   late |-> FALSE]                 \* an event came after the load was decided

\* resolve/reject of a promise and Promise.race: the first outcome stays.
Settle(l, promise, reason) ==
  IF l.promise = "pending"
  THEN [l EXCEPT !.promise = promise, !.reason = reason] ELSE l

\* A cleanup that removes the listeners and leaves the timer running.
cleanupKeepsTimer(l) == [l EXCEPT !.listeners = FALSE]

\* playVideo.cleanup; clearTimeout of a timer that has run does nothing.
cleanup(l) ==
  [l EXCEPT !.timer = IF @ = "pending" THEN "cleared" ELSE @,
            !.listeners = FALSE]

\* playVideo.onLoadedData up to "await videoElement.play()".
onLoadedData(l) ==
  IF l.isPromiseSettled THEN l
  ELSE [cleanup(l) EXCEPT !.isPromiseSettled = TRUE, !.source = "ready",
                          !.play = "pending"]

\* playVideo.onLoadedData after the await: resolve() on either outcome.
onPlaySettled(l, started) ==
  Settle([l EXCEPT !.play = IF started THEN "resolved" ELSE "rejected"],
         "resolved", "")

onError(l) ==
  IF l.isPromiseSettled THEN l
  ELSE Settle([cleanup(l) EXCEPT !.isPromiseSettled = TRUE,
                                 !.source = "failed"],
              "rejected", "Video failed to load")

onTimeout(l) ==
  IF l.isPromiseSettled THEN l
  ELSE Settle([cleanup(l) EXCEPT !.isPromiseSettled = TRUE],
              "rejected", "Video loading timed out")

\* loadImage: the two promises of its Promise.race.
onDecode(l, decoded) ==
  IF decoded THEN Settle([l EXCEPT !.source = "ready"], "resolved", "")
  ELSE Settle([l EXCEPT !.source = "failed"], "rejected",
              "Failed to load image")

onImageTimer(l) == Settle(l, "rejected", "Failed to load image: timeout")

Loading == probe.op = "loadMedia"

\* A step of the load: the engine is not involved.
LoadStep(l) ==
  /\ probe' = l
  /\ lastSettled' = IF Loading /\ l.promise # probe.promise
                    THEN Settled("loadMedia", l.promise, l.reason)
                    ELSE NothingSettled
  /\ UNCHANGED << mmVars, hostVars, obsVars, cycle >>

\* loadMedia(url, settings.mediaTimeout), called once the load before it
\* has settled.
ApplyLoadMedia(url) ==
  /\ Loading => probe.promise # "pending"
  /\ LoadStep(NewLoad(url, mediaTimeout))

\* image.decode() resolves.
Decoded ==
  /\ Loading /\ probe.tag = "img" /\ probe.source = "pending"
  /\ probe.url \in LoadableURLs
  /\ LoadStep(onDecode(probe, TRUE))

\* image.decode() rejects.
DecodeFails ==
  /\ Loading /\ probe.tag = "img" /\ probe.source = "pending"
  /\ LoadStep(onDecode(probe, FALSE))

\* The video element fires "loadeddata".
LoadedData ==
  /\ Loading /\ probe.tag = "video" /\ probe.source = "pending"
  /\ probe.listeners /\ probe.url \in LoadableURLs
  /\ LoadStep(onLoadedData(probe))

\* The video element fires "error".
ErrorEvent ==
  /\ Loading /\ probe.tag = "video" /\ probe.source = "pending"
  /\ probe.listeners
  /\ LoadStep(onError(probe))

\* videoElement.play() resolves (started) or rejects.
PlaySettles(started) ==
  /\ Loading /\ probe.play = "pending"
  /\ LoadStep(onPlaySettled(probe, started))

\* The timer of the load expires.
TimerFires ==
  /\ Loading /\ probe.timer = "pending"
  /\ LoadStep(IF probe.tag = "video"
              THEN onTimeout([probe EXCEPT !.timer = "fired"])
              ELSE onImageTimer([probe EXCEPT !.timer = "fired"]))

LoadURLs == {DefaultURL, ImageURL, VideoURL, MissingURL}

NextLoad ==
  \/ \E timeoutMs \in TimeoutInputs :
       SetMediaTimeout(timeoutMs) /\ UNCHANGED << cycle, probe >>
  \/ \E url \in LoadURLs : ApplyLoadMedia(url)
  \/ Decoded
  \/ DecodeFails
  \/ LoadedData
  \/ ErrorEvent
  \/ \E started \in BOOLEAN : PlaySettles(started)
  \/ TimerFires

SpecLoad == Init /\ [][NextLoad]_vars

\* The host runs every timer that is set and not cleared.
SpecLoadFair == SpecLoad /\ WF_vars(TimerFires)

\* C26: every media load that is started eventually settles, for images and
\* for videos: its promise resolves, or rejects on a decode or load failure,
\* or rejects when its timer expires; no load stays pending forever.
C26_EveryLoadSettles ==
  (Loading /\ probe.promise = "pending")
    ~> (Loading /\ probe.promise # "pending")

\* C27: once a media load has settled, by success or by failure, no timer
\* that was set for it is pending.
C27_NoTimerAfterSettle ==
  (Loading /\ probe.promise # "pending") => probe.timer # "pending"

\* --------------------------------------------------- defineProperty chains
\* defineProperty(navigator.mediaDevices, property, v) called repeatedly on
\* one configurable property, and the returned restore functions called
\* last-returned first.  The probe keeps what the caller keeps: the values
\* passed, the restore functions returned, how many of them it has called
\* since the last defineProperty, and the object as it was.
DefineValues == {HostFn, MockFn, Undefined}

InitDefine ==
  /\ InitEngine /\ InitObs /\ InitDriver
  /\ mediaDevicesDefined = TRUE
  /\ props \in [Entries -> {HostFn, Undefined}]
  /\ propKind = [e \in Entries |-> "configurable"]
  /\ rafSupported = TRUE
  /\ pendingRaf = {} /\ pendingInterval = {}
  /\ attached = << >>
  /\ mediaDeviceInfo = [p \in Presets |-> InitialDeviceList(p)]
  /\ events = 0
  /\ imageIds = {}
  /\ autoplay = FALSE /\ playing = {} /\ now = 0

Defining == probe.op = "defineProperty"

\* The values and restore functions already held, for this property.
Held(property) ==
  IF Defining /\ probe.restores # << >> /\ probe.property = property
  THEN probe
  ELSE [op |-> "defineProperty", property |-> property, values |-> << >>,
        restores |-> << >>, restored |-> 0, object |-> props]

ApplyDefineProperty(property, newValue) ==
  /\ Defining /\ probe.restores # << >> => probe.property = property
  /\ Len(Held(property).restores) < MaxDefines
  /\ props' = [props EXCEPT
                 ![property] = definePropertyValue(Cur, property, newValue)]
  /\ probe' = [Held(property) EXCEPT
                 !.values = Append(@, newValue),
                 !.restored = 0,
                 !.restores = Append(@, definePropertyCleanup(Cur, property))]
  /\ lastSettled' = NothingSettled
  /\ UNCHANGED << mmVars, mediaDevicesDefined, propKind, rafSupported,
                  pendingRaf, pendingInterval, attached, mediaDeviceInfo,
                  events, imageIds, autoplay, playing, now, obsVars, cycle >>

\* The restore function returned last and not yet called is called.
ApplyRestore ==
  LET n == Len(probe.restores)
  IN  /\ Defining /\ n > 0
      /\ props' = RunCleanup(Cur, probe.property, probe.restores[n]).props
      /\ probe' = [probe EXCEPT !.values = SubSeq(@, 1, n - 1),
                                !.restored = @ + 1,
                                !.restores = SubSeq(@, 1, n - 1)]
      /\ lastSettled' = NothingSettled
      /\ UNCHANGED << mmVars, mediaDevicesDefined, propKind, rafSupported,
                      pendingRaf, pendingInterval, attached, mediaDeviceInfo,
                      events, imageIds, autoplay, playing, now, obsVars, cycle >>

NextDefine ==
  \/ \E property \in Entries, newValue \in DefineValues :
       ApplyDefineProperty(property, newValue)
  \/ ApplyRestore

SpecDefine == InitDefine /\ [][NextDefine]_vars

\* C29: for values v1..vn installed on one configurable property by n
\* successive defineProperty calls and restored last-installed first, the
\* property equals vn after the n-th call, v(i-1) after the restore of vi
\* and its original value after the last restore, and no other property of
\* the object ever changes; in particular one defineProperty followed by
\* its restore leaves the whole object as it was.
C29_RestoreInReverseOrder ==
  Defining =>
    /\ props[probe.property] =
         (IF probe.values = << >> THEN probe.object[probe.property]
          ELSE probe.values[Len(probe.values)])
    /\ \A e \in Entries \ {probe.property} : props[e] = probe.object[e]

\* Two of three stacked values have been restored: the property, whose
\* original value was undefined, holds the first value again.
C29_Witness ==
  /\ Defining /\ probe.values = << MockFn >>
  /\ probe.object[probe.property] = Undefined
  /\ props[probe.property] = MockFn
  /\ probe.restored = 2

\* ------------------------------------------------------------- frame rate
\* The frameRate members a caller passes: none, a number, zero, and ranges
\* with an ideal, with a zero ideal, and without ideal.
FrameRates ==
  {NoValue, Num(0), Num(15), Num(60), Range(24, Absent, Absent),
   Range(0, Absent, Absent), Range(Absent, 20, Absent),
   Range(Absent, Absent, 60)}

FrameRateConstraints ==
  {VideoTrue} \cup {VideoObject(NoValue, NoValue, f, NoValue) : f \in FrameRates}

\* this.canvas.captureStream(this.fps)
captureStream(s) == [canvas |-> s.canvas, frameRate |-> s.fps]

\* The load of a pending capture resolves; probe keeps the constraints of
\* the call and the frame rate its canvas was captured at.
LoadResolveCaptured(call) ==
  /\ LoadResolve(call)
  /\ probe' = IF lastSettled'.result = "resolved"
              THEN [op |-> "capture", constraints |-> call.constraints,
                    frameRate |-> captureStream(AfterLoad(Cur, call)).frameRate,
                    platform |-> None, settings |-> None]
              ELSE NoProbe

\* The caller reads the settings of the track it was given last.
ReadSettings(settings) ==
  /\ probe.op = "capture" /\ calls = EmptyBag /\ currentStream # 0
  /\ probe' = [probe EXCEPT !.platform = settings,
                            !.settings = getSettings(Cur, settings)]
  /\ lastSettled' = Returned("getSettings", Cur)
  /\ UNCHANGED << mmVars, hostVars, obsVars, cycle >>

NextFrameRate ==
  \/ /\ \/ /\ \/ Mock("iPhone 12", createDefaultMockOptions)
              \/ \E c \in FrameRateConstraints : AwaitedGetUserMedia(c)
              \/ \E cb \in pendingRaf, due \in BOOLEAN : RafFire(cb, due)
              \/ \E tm \in pendingInterval : IntervalFire(tm)
           /\ UNCHANGED probe
        \/ Unmock /\ probe' = NoProbe
        \/ \E call \in Pending : LoadResolveCaptured(call)
     /\ Bounded
     /\ UNCHANGED cycle
  \/ \E settings \in PlatformSettings : ReadSettings(settings)

SpecFrameRate == Init /\ [][NextFrameRate]_vars

\* The frame rate the claim assigns to a constraint set.
ClaimedFrameRate(c) ==
  CASE c.video # "object" -> 30
    [] c.frameRate.t = "num" /\ c.frameRate.v # 0 -> c.frameRate.v
    [] c.frameRate.t = "range" /\ c.frameRate.ideal # Absent
         /\ c.frameRate.ideal # 0 -> c.frameRate.ideal
    [] OTHER -> 30

MaxClock == 4

AtLeastOneInterval(elapsed, rate) == elapsed * rate >= 60

\* Time passes.
Tick ==
  /\ now < MaxClock
  /\ CommitAll([Cur EXCEPT !.now = @ + 1])
  /\ lastSettled' = NothingSettled
  /\ UNCHANGED << calls, deviceOps, lastMocked >>

\* What a caller watching the canvas sees of a callback: whether it drew,
\* and how long after the draw before.
Watched(via, cb, drew) ==
  [op |-> "frames",
   lastDraw |-> IF drew THEN now ELSE probe.lastDraw,
   ticked |-> now,
   frame |-> [via |-> via, kind |-> cb.kind, fps |-> cb.fps, drew |-> drew,
              gap |-> IF probe.lastDraw = Absent THEN Absent
                      ELSE now - probe.lastDraw]]

\* The host, whose display shows 60 frames per second, runs a requested
\* frame callback at the present time.
FrameCallback(cb) ==
  LET due == AtLeastOneInterval(now - lastDrawTime, cb.fps)
      s == frameCallback([Cur EXCEPT !.pendingRaf = @ \ {cb}], cb, due)
  IN  /\ probe.ticked # now
      /\ RafFire(cb, due)
      /\ probe' = Watched("raf", cb, s.drawn > 0)

\* An interval timer ticks: a whole number of periods after it was set.
TimerTick(tm) ==
  /\ now > tm.start
  /\ ((now - tm.start) * tm.fps) % 60 = 0
  /\ probe.ticked # now
  /\ IntervalFire(tm)
  /\ probe' = Watched("timer", tm, timerCallback(Cur, tm).drawn > 0)

InitFrames ==
  /\ InitEngine /\ InitHost({TRUE}) /\ InitObs
  /\ lastSettled = NothingSettled
  /\ cycle = [pc |-> "free", n |-> 0]
  /\ probe = [op |-> "frames", lastDraw |-> Absent, ticked |-> Absent,
              frame |-> None]

\* Captures at 30 and at 15 frames per second of an image and of a video
\* source, swapped while the loop runs.
NextFrames ==
  /\ \/ /\ \/ Mock("iPhone 12", createDefaultMockOptions)
           \/ Unmock
           \/ \E url \in SwapURLs :
                calls = EmptyBag /\ SetMediaURLCall(Str(url))
           \/ \E c \in SettingsConstraints : AwaitedGetUserMedia(c)
           \/ \E call \in Pending : LoadResolve(call)
           \/ Tick
        /\ probe' = [probe EXCEPT !.frame = None]
     \/ \E cb \in pendingRaf : FrameCallback(cb)
     \/ \E tm \in pendingInterval : TimerTick(tm)
  /\ Bounded
  /\ UNCHANGED cycle

SpecFrames == InitFrames /\ [][NextFrames]_vars

\* C32: a frame callback that arrives less than 1000 / fps milliseconds
\* after the last draw draws nothing, so that consecutive draws are at
\* least 1000 / fps milliseconds apart, for video and for image sources;
\* without requestAnimationFrame the loop is a timer of that period.
C32_DrawsOneIntervalApart ==
  /\ (probe.frame # None /\ probe.frame.drew /\ probe.frame.gap # Absent)
       => AtLeastOneInterval(probe.frame.gap, probe.frame.fps)
  /\ ~rafSupported =>
       /\ pendingRaf = {}
       /\ calls = EmptyBag => \A tm \in pendingInterval : tm.fps = fps

\* ------------------------------------------------------ one video load
\* The video element fires "loadeddata" or "error" whenever the host
\* decides, also after the load was decided; the event reaches the handler
\* only while its listener is registered.
MissingVideoURL == << "/assets/missing", "webm" >>

VideoEvents == {"loadeddata", "error"}

Dispatch(l, type) ==
  IF ~l.listeners THEN [l EXCEPT !.late = TRUE]
  ELSE IF type = "loadeddata" THEN onLoadedData(l) ELSE onError(l)

VideoEvent(type) ==
  /\ Loading /\ probe.tag = "video"
  /\ type = "loadeddata" => probe.url \in LoadableURLs
  /\ LoadStep(Dispatch(probe, type))

NextVideoLoad ==
  \/ \E timeoutMs \in TimeoutInputs :
       SetMediaTimeout(timeoutMs) /\ UNCHANGED << cycle, probe >>
  \/ \E url \in {VideoURL, MissingVideoURL} : ApplyLoadMedia(url)
  \/ \E type \in VideoEvents : VideoEvent(type)
  \/ \E started \in BOOLEAN : PlaySettles(started)
  \/ TimerFires

SpecVideoLoad == Init /\ [][NextVideoLoad]_vars

\* The load has been decided: one of the three handlers has run.
Decided == Loading /\ probe.isPromiseSettled

InitTeardown ==
  /\ InitEngine /\ InitHost({TRUE}) /\ InitObs
  /\ lastSettled = NothingSettled
  /\ cycle = [pc |-> "free", n |-> 0]
  /\ probe = [op |-> "draws", frame |-> None, torn |-> FALSE]

Drew(kind, drew) == [kind |-> kind, drew |-> drew]

WatchedFrame(cb, due) ==
  /\ RafFire(cb, due)
  /\ probe' = [probe EXCEPT !.frame =
        Drew(cb.kind,
             frameCallback([Cur EXCEPT !.pendingRaf = @ \ {cb}],
                           cb, due).drawn > 0)]

WatchedTick(tm) ==
  /\ IntervalFire(tm)
  /\ probe' = [probe EXCEPT !.frame =
                 Drew(tm.kind, timerCallback(Cur, tm).drawn > 0)]

NextTeardown ==
  /\ \/ /\ Mock("iPhone 12", createDefaultMockOptions)
        /\ probe' = [probe EXCEPT !.frame = None]
     \/ /\ Unmock
        /\ probe' = [probe EXCEPT !.frame = None, !.torn = TRUE]
     \/ /\ \E url \in SwapURLs : SetMediaURLCall(Str(url))
        /\ probe' = [probe EXCEPT !.frame = None]
     \/ /\ \E ctxOk \in BOOLEAN : GetUserMediaCall(VideoTrue, FALSE, ctxOk)
        /\ probe' = [probe EXCEPT !.frame = None, !.torn = FALSE]
     \/ /\ \/ \E call \in Pending : LoadResolve(call)
           \/ \E call \in Pending : LoadReject(call)
        /\ probe' = [probe EXCEPT !.frame = None]
     \/ \E cb \in pendingRaf, due \in BOOLEAN : WatchedFrame(cb, due)
     \/ \E tm \in pendingInterval : WatchedTick(tm)
  /\ Bounded
  /\ UNCHANGED cycle

SpecTeardown == InitTeardown /\ [][NextTeardown]_vars

DrewFrame == probe.op = "draws" /\ probe.frame # None /\ probe.frame.drew

\* C34: no frame is drawn while the drawing context or the current source
\* is absent; a frame callback or timer tick that runs after teardown
\* draws nothing, and nothing is drawn between unmock() and the next
\* capture call.
C34_NoDrawWithoutContextOrSource ==
  DrewFrame =>
    /\ ctx # 0
    /\ IF probe.frame.kind = "video" THEN currentVideo # None
       ELSE currentImage # None
    /\ ~probe.torn

\* A callback ran after unmock() and drew nothing: a capture that was
\* pending across the unmock() started a loop on the engine without a
\* drawing context.
C34_Witness ==
  /\ probe.op = "draws" /\ probe.frame # None /\ ~probe.frame.drew
  /\ probe.torn /\ ctx = 0 /\ currentImage # None

\* ------------------------------------------------------- repeated mock()
\* mock() and unmock() as in SpecIntercept, with what a caller can write
\* down of them: the entries as they were before the first mock() of the
\* session, how often each was intercepted since (2 stands for twice or
\* more), and which were left out by a later mock() whose flag was false.
InitRemock ==
  /\ InitEngine /\ InitHost(BOOLEAN) /\ InitObs
  /\ lastSettled = NothingSettled
  /\ cycle = [pc |-> "free", n |-> 0]
  /\ probe = [op |-> "mock", premock |-> props,
              count |-> [e \in Entries |-> 0],
              kept |-> [e \in Entries |-> FALSE]]

MockNoted(dev, options) ==
  /\ Mock(dev, options)
  /\ probe' =
       [op |-> "mock",
        premock |-> IF \A e \in Entries : probe.count[e] = 0
                    THEN props ELSE probe.premock,
        count |-> [e \in Entries |->
                     IF options[e] THEN (IF probe.count[e] = 0 THEN 1 ELSE 2)
                     ELSE probe.count[e]],
        kept |-> [e \in Entries |->
                    IF options[e] THEN FALSE
                    ELSE probe.kept[e] \/ probe.count[e] > 0]]

UnmockNoted ==
  /\ Unmock
  /\ probe' = [op |-> "unmock", premock |-> probe.premock,
               count |-> [e \in Entries |-> 0],
               kept |-> [e \in Entries |-> FALSE],
               restored |-> {e \in Entries :
                               probe.kept[e] /\ probe.count[e] = 1}]

NextRemock ==
  /\ \/ \E dev \in Presets, options \in MockOptions : MockNoted(dev, options)
     \/ UnmockNoted
  /\ UNCHANGED cycle

SpecRemock == InitRemock /\ [][NextRemock]_vars

C36_PortraitViewportGivesPortraitShape ==
  (Resolved /\ probe.isPortrait /\ Len(ResolutionList) > 0) =>
    /\ ~probe.threw
    /\ probe.result.width <= probe.result.height

\* ------------------------------------------------------ overlapping captures
\* getUserMedia calls that overlap: a caller starts a second one while the
\* first awaits its media load.  The probe holds, for every call that is
\* under way, the canvas the call created, and for the call that resolved
\* in the last step the canvas its stream was captured from.
InitOverlap ==
  /\ InitEngine /\ InitHost({TRUE}) /\ InitObs
  /\ lastSettled = NothingSettled
  /\ cycle = [pc |-> "free", n |-> 0]
  /\ probe = [op |-> "captures", created |-> {}, returned |-> None]

CanvasOf(c, element) == [constraints |-> c, canvas |-> element]

GetUserMediaTraced(c) ==
  /\ GetUserMediaCall(c, FALSE, TRUE)
  /\ probe' = [probe EXCEPT
                 !.created = IF lastSettled' = NothingSettled
                             THEN @ \cup {CanvasOf(c, canvas')} ELSE @,
                 !.returned = None]

LoadResolveTraced(call) ==
  LET source == captureStream(AfterLoad(Cur, call)).canvas
  IN  /\ LoadResolve(call)
      /\ probe' = IF call.op = "getUserMedia"
                     /\ lastSettled'.result = "resolved"
                  THEN [probe EXCEPT
                          !.returned = CanvasOf(call.constraints, source)]
                  ELSE [probe EXCEPT !.returned = None]

NextOverlap ==
  /\ \/ /\ \/ Mock("iPhone 12", createDefaultMockOptions)
           \/ \E call \in Pending : LoadReject(call)
        /\ probe' = [probe EXCEPT !.returned = None]
     \/ /\ Unmock
        /\ probe' = [probe EXCEPT !.returned = None]
     \/ \E c \in ConstraintSets : GetUserMediaTraced(c)
     \/ \E call \in Pending : LoadResolveTraced(call)
  /\ Bounded
  /\ UNCHANGED cycle

SpecOverlap == InitOverlap /\ [][NextOverlap]_vars

\* C37: each intercepted getUserMedia call returns a stream captured from
\* the canvas that this call created, whose size is the resolution resolved
\* from this call's constraints, also when two calls overlap.
C37_StreamFromOwnCanvas ==
  (probe.op = "captures" /\ probe.returned # None) =>
    /\ probe.returned \in probe.created
    /\ probe.returned.canvas.width =
         getResolution(probe.returned.constraints, device, FALSE).width
    /\ probe.returned.canvas.height =
         getResolution(probe.returned.constraints, device, FALSE).height

\* The error startDrawingLoop throws when the source it needs is missing.
MediaNotLoaded == {"Video media not loaded", "Image media not loaded"}

KindOfMediaURL == IF isVideoURL(mediaURL) THEN "video" ELSE "image"

\* C38: at most one of the current image and the current video is set; the
\* one that is set, and with it every loop startDrawingLoop has started,
\* is of the type isVideoURL gives for settings.mediaURL; and no call ends
\* with "Video media not loaded" or "Image media not loaded".
C38_SourceMatchesMediaURL ==
  /\ currentImage = None \/ currentVideo = None
  /\ currentVideo # None => isVideoURL(mediaURL)
  /\ currentImage # None => ~isVideoURL(mediaURL)
  /\ \A cb \in pendingRaf \cup pendingInterval :
       /\ cb.kind = KindOfMediaURL
       /\ IF cb.kind = "video" THEN currentVideo # None
          ELSE currentImage # None
  /\ lastSettled.value \notin MediaNotLoaded

\* A capture has resolved after the source was swapped from the default
\* image to a video: the video is the only source and the loop is the
\* video loop.
C38_Witness ==
  /\ lastSettled = Settled("getUserMedia", "resolved", "")
  /\ mediaURL = VideoURL /\ currentVideo # None /\ currentImage = None
  /\ \E cb \in pendingRaf \cup pendingInterval : cb.kind = "video"

\* ------------------------------------------------- settings across unmock()
\* A caller that changes the settings before its first mock(), switches
\* debug mode on, and goes through unmock() and mock() to the next capture.  The probe tells how
\* far it is: debug mode "enabled", then "unmocked", then "remocked"; any
\* enableDebugMode() makes it "enabled" again.
InitSession ==
  /\ InitEngine /\ InitHost({TRUE}) /\ InitObs
  /\ lastSettled = NothingSettled
  /\ cycle = [pc |-> "free", n |-> 0]
  /\ probe = [op |-> "session", phase |-> "start"]

Phase(p) == probe' = [op |-> "session", phase |-> p]

NextSession ==
  /\ \/ /\ Mock("Custom", createDefaultMockOptions)
        /\ Phase(IF probe.phase = "unmocked" THEN "remocked" ELSE probe.phase)
     \/ /\ Unmock
        /\ Phase(IF probe.phase = "start" THEN "start" ELSE "unmocked")
     \/ /\ EnableDebugMode
        /\ Phase("enabled")
     \/ /\ \/ /\ lastMocked = "none"
              /\ \/ SetMediaTimeout(Number(30 * 1000))
                 \/ SetCanvasScaleFactor(Number(50))
                 \/ SetMockedVideoTracksHandler("drop")
                 \/ calls = EmptyBag /\ SetMediaURLCall(Str(VideoURL))
           \/ AwaitedGetUserMedia(VideoTrue)
           \/ \E call \in Pending : LoadResolve(call)
           \/ \E cb \in pendingRaf : RafFire(cb, TRUE)
           \/ \E tm \in pendingInterval : IntervalFire(tm)
        /\ UNCHANGED probe
  /\ Bounded
  /\ UNCHANGED cycle

SpecSession == InitSession /\ [][NextSession]_vars

\* C39: unmock() switches debug mode off and changes no other setting:
\* after enableDebugMode(), unmock() and mock(device), a capture call
\* attaches nothing to the document until enableDebugMode() is called
\* again, and settings.mediaURL, settings.device, canvasScaleFactor,
\* mediaTimeout and the tracks handler are after unmock() what they were
\* before it.
C39_UnmockSwitchesDebugOffOnly ==
  [][/\ Unmock =>
          /\ debug' = FALSE
          /\ UNCHANGED << mediaURL, device, canvasScaleFactor, mediaTimeout,
                          mockedVideoTracksHandler >>
     /\ \A call \in Pending :
          (probe.phase = "remocked" /\ call.op = "getUserMedia"
             /\ LoadResolve(call))
            => /\ attached' = attached
               /\ debug' = FALSE]_vars

\* After enableDebugMode(), unmock() and mock('Custom') a capture of a video
\* source has resolved, debug mode is off and the settings made before are
\* in place.
C39_Witness ==
  /\ probe.op = "session" /\ probe.phase = "remocked"
  /\ lastSettled = Settled("getUserMedia", "resolved", "")
  /\ ~debug /\ device = "Custom" /\ mediaURL = VideoURL
  /\ mediaTimeout = Number(30 * 1000) /\ canvasScaleFactor = Number(50)
  /\ mockedVideoTracksHandler = "drop"

\* --------------------------------------------------- edits of the presets
\* The device lists as a caller expects them who holds the preset objects:
\* expected is each preset's list with the additions and removals made
\* while it was the preset passed to mock() (the built-in one before any
\* mock()); carried holds the devices added before an unmock(), added those
\* added since.
ActivePreset == IF lastMocked = "none" THEN "iPhone 12" ELSE lastMocked

InitPresets ==
  /\ InitEngine /\ InitHost({TRUE}) /\ InitObs
  /\ lastSettled = NothingSettled
  /\ cycle = [pc |-> "free", n |-> 0]
  /\ probe = [op |-> "presets",
              expected |-> [p \in Presets |-> InitialDeviceList(p)],
              added |-> {}, carried |-> {}]

Edit(p, d) == [preset |-> p, info |-> d]

AddNoted(d) ==
  /\ AddMockDevice(d)
  /\ probe' = [probe EXCEPT !.expected[ActivePreset] = Append(@, d),
                            !.added = @ \cup {Edit(ActivePreset, d)}]

RemoveNoted(id) ==
  LET Others(edits) ==
        {e \in edits : ~(e.preset = ActivePreset /\ e.info.deviceId = id)}
  IN  /\ RemoveMockDevice(id)
      /\ probe' = [probe EXCEPT
                     !.expected[ActivePreset] =
                        SelectSeq(@, LAMBDA x : x.deviceId # id),
                     !.added = Others(@),
                     !.carried = Others(@)]

NextPresets ==
  /\ \/ /\ \/ \E dev \in Presets : Mock(dev, createDefaultMockOptions)
           \/ EnumerateDevicesCall
        /\ UNCHANGED probe
     \/ /\ Unmock
        /\ probe' = [probe EXCEPT !.carried = @ \cup probe.added,
                                  !.added = {}]
     \/ \E d \in DeviceInfos : AddNoted(d)
     \/ \E id \in DeviceIds : RemoveNoted(id)
  /\ Bounded
  /\ UNCHANGED cycle

SpecPresets == InitPresets /\ [][NextPresets]_vars

\* C40: addMockDevice and removeMockDevice change the preset object that
\* was passed to mock(), and unmock() undoes none of it: enumerateDevices
\* returns the list with every addition and removal made so far, and a
\* device added before an unmock() is in the list returned after a later
\* mock() with the same preset.
C40_PresetEditsOutliveUnmock ==
  /\ [](lastSettled.op = "enumerateDevices" =>
          /\ lastSettled.value = probe.expected[lastMocked]
          /\ \A e \in probe.carried \cup probe.added :
               e.preset = lastMocked =>
                 \E i \in 1..Len(lastSettled.value) :
                   lastSettled.value[i] = e.info)
  /\ [][Unmock => mediaDeviceInfo' = mediaDeviceInfo]_vars
  /\ [](\A p \in Presets : mediaDeviceInfo[p] = probe.expected[p])

\* The device "usb" was added to the built-in preset, unmock() and mock()
\* with the same preset followed, and enumerateDevices returns it.
C40_Witness ==
  /\ lastSettled.op = "enumerateDevices" /\ lastMocked = "iPhone 12"
  /\ Edit("iPhone 12", Usb) \in probe.carried
  /\ lastSettled.value = <<Front, Back, Usb>>

====
